---- MODULE Spec2Model ----
(***************************************************************************)
(* A model of salticidae's connection pool (conn.h), framed message        *)
(* network and peer network (network.h).                                   *)
(*                                                                         *)
(* Two nodes, 1 and 2, each run a PeerNetwork and have registered the      *)
(* other as a peer.  A link is one TCP connection: link l has the ACTIVE   *)
(* end 2l-1 at the node that dialed it and the PASSIVE end 2l at the       *)
(* other node.  PeerId is ADDR_BASED: the id of a peer is its listen       *)
(* address, and the listen address of node n is n.                         *)
(***************************************************************************)
EXTENDS Integers, Sequences, FiniteSets, TLC

\* ------------------------------------------------------------ bounds
MaxLinks == 2
MaxNonce == 1
MaxConnPeer == 2
MaxEvents == 1
MaxFrames == 2
max_msg_size == 1
max_msg_queue_size == 1
MaxDials == 3
MaxSends == 3
MaxCapacity == 2
conn_timeout == 2
MaxAsks == 1

\* ------------------------------------------------------------ constants
passive_nonce == 65535
NonceTop == 65536

Nodes == {1, 2}
Other(n) == 3 - n
\* a scenario dials at most MaxDials links, the general model MaxLinks of them
Links == 1..MaxDials
ConnIds == 1..(2 * MaxDials)
NullConn == 0
NullAddr == 0
\* Conn::ev_timeout is not armed
Unarmed == -1
\* the remote addresses clients of a ClientNetwork connect from
ClientAddrs == {1, 2}

\* values get_nonce can draw: n + 1 for a 16-bit n; the small ones and the top
Nonces == (1..MaxNonce) \cup {NonceTop}

VARIABLES
    conns,          \* ConnIds -> Conn object
    peers,          \* Nodes -> the Peer this node keeps for the other node
    pending_peers,  \* Nodes -> set of connections in the pending map
    wire,           \* ConnIds -> messages on their way to this end's handlers
    send_buffer,    \* ConnIds -> chunks pushed but never written to the socket
    nlinks,         \* links dialed so far
    dialer,         \* Links -> node that dialed the link (0: not dialed)
    peer_up,        \* ConnIds -> number of peer_cb(conn, true) posted
    peer_down,      \* ConnIds -> number of peer_cb(conn, false) posted
    used,           \* environment events used so far, by kind
    sent_nonce,     \* history: Nodes -> nonce of the node's first handshake Ping
    ev_timeout,     \* ConnIds -> ticks left on Conn::ev_timeout (Unarmed: not armed)
    silent,         \* Nodes -> the node's threads are blocked: it answers nothing
    asked,          \* history: Nodes -> the ntry of the latest conn_peer and the
                    \* number of links dialed before it
    queue_capacity, \* ConnPool::queue_capacity
    submitted,      \* history: the send_msg calls on connection SC and their results
    calls,          \* the deferred calls made so far: the async-id last given out
    addr2conn,      \* ClientNetwork::addr2conn: address -> connection, or NullConn
    remote_addr,    \* Conn::addr of the connections a ClientNetwork accepted
    nworker,        \* ConnPool::nworker
    nconn,          \* Workers -> Worker::nconn
    selected,       \* the worker select_worker returned last (NoWorker: none)
    written,        \* history: the frames the remote end of RC has written, byte level
    io,             \* the send side of connection SC on its worker
    race,           \* the user thread in send_msg(msg, pid) and the dispatcher in
                    \* a task on the same Peer, with the lock each one holds
    known_peers,    \* Nodes -> the node has the other node registered as a peer
    unknown_cb,     \* Nodes -> number of unknown_peer_cb calls posted
    errors,         \* the errors reported to the user: recoverable ones by
                    \* async-id, fatal ones through disp_error_cb
    \* the receiving side of connection RC, byte level
    socket,         \* bytes written by the remote end and not read yet
    nframes,        \* frames the remote end has written so far
    recv_buffer,    \* Conn::recv_buffer
    msg,            \* Conn::msg
    msg_state,      \* Conn::msg_state
    msg_sleep,      \* Conn::msg_sleep
    ev_enqueue_poll,\* Conn::ev_enqueue_poll is armed
    incoming_msgs,  \* MsgNetwork::incoming_msgs
    handled,        \* history: the user handler invocations
    reported        \* history: the errors on_read has thrown

msg_vars == <<socket, nframes, recv_buffer, msg, msg_state, msg_sleep,
              ev_enqueue_poll, incoming_msgs, handled, reported>>

pool_vars == <<nworker, nconn, selected, written, io, race>>

cli_vars == <<addr2conn, remote_addr, pool_vars>>

aux_vars == <<silent, asked, queue_capacity, submitted, calls, cli_vars>>

reg_vars == <<known_peers, unknown_cb, errors>>

vars == <<conns, peers, pending_peers, wire, send_buffer, nlinks, dialer,
          peer_up, peer_down, reg_vars, ev_timeout, used, sent_nonce, msg_vars, aux_vars>>

\* The state as one record, so that a handler is a function from world to world.
World == [conns |-> conns, peers |-> peers, pend |-> pending_peers, wire |-> wire,
          sbuf |-> send_buffer, nlinks |-> nlinks, dialer |-> dialer,
          up |-> peer_up, down |-> peer_down, tmo |-> ev_timeout,
          known |-> known_peers, ucb |-> unknown_cb, err |-> errors]

Commit(w) ==
    /\ conns' = w.conns
    /\ peers' = w.peers
    /\ pending_peers' = w.pend
    /\ wire' = w.wire
    /\ send_buffer' = w.sbuf
    /\ nlinks' = w.nlinks
    /\ dialer' = w.dialer
    /\ peer_up' = w.up
    /\ peer_down' = w.down
    /\ ev_timeout' = w.tmo
    /\ known_peers' = w.known
    /\ unknown_cb' = w.ucb
    /\ errors' = w.err

\* ------------------------------------------------------------ connections
IsActiveEnd(c) == c % 2 = 1
LinkOf(c) == (c + 1) \div 2
PeerEnd(c) == IF IsActiveEnd(c) THEN c + 1 ELSE c - 1
\* the node that owns connection c
NodeOf(w, c) ==
    IF IsActiveEnd(c) THEN w.dialer[LinkOf(c)] ELSE Other(w.dialer[LinkOf(c)])
\* Conn::get_addr: the dialed listen address for an ACTIVE connection, the
\* remote socket's (ephemeral, unique) address for a PASSIVE one
get_addr(w, c) == IF IsActiveEnd(c) THEN Other(NodeOf(w, c)) ELSE 2 + c

\* peer: Conn::peer is set; stale: the Peer it points to has been destroyed
NoConn == [mode |-> "NONE", setup |-> FALSE, peer |-> FALSE, stale |-> FALSE,
           stop |-> 0, fin |-> 0, torn |-> 0]

is_terminated(w, c) == w.conns[c].mode = "DEAD"
Alive(w, c) == w.conns[c].mode \in {"ACTIVE", "PASSIVE"}

\* PeerNetwork::get_peer_id, ADDR_BASED: the hash of the address
get_peer_id(c, addr) == addr

\* known_peers.find(pid) at node n, whose only peer is the other node
PeerKnown(w, n, pid) == w.known[n] /\ pid = Other(n)

NoPeer(a) == [addr |-> a, nonce |-> 0, conn |-> NullConn, chosen_conn |-> NullConn,
              inbound_conn |-> NullConn, outbound_conn |-> NullConn,
              ntry |-> 0, state |-> "DISCONNECTED",
              ev_ping_timer |-> FALSE, ev_retry_timer |-> FALSE,
              ping_timer_ok |-> FALSE, pong_msg_ok |-> FALSE]

MsgPing(addr, nonce) == [op |-> "Ping", claimed_addr |-> addr, nonce |-> nonce]
MsgPong(addr, nonce) == [op |-> "Pong", claimed_addr |-> addr, nonce |-> nonce]

\* ------------------------------------------------------------ teardown
\* ConnPool::disp_terminate: post a task to the connection's worker that stops
\* it; the finalizer follows from there
disp_terminate(w, c) ==
    IF c = NullConn THEN w ELSE [w EXCEPT !.conns[c].stop = @ + 1]

\* Conn::stop on the worker (PeerNetwork::Conn::stop clears ev_timeout), then the
\* finalizer posted to the dispatcher; a
\* connection that is already DEAD absorbs the call.  The worker reads nothing
\* more for a stopped connection, and the handler tasks of what it had read
\* return at their is_terminated check: the messages on their way are dropped.
worker_terminate(w, c) ==
    IF is_terminated(w, c) THEN w
    ELSE [w EXCEPT !.conns[c].mode = "DEAD", !.conns[c].fin = @ + 1,
                   !.wire[c] = <<>>, !.tmo[c] = Unarmed]

\* terminate that posts the finalizer itself instead of calling disp_terminate
terminate_direct(w, c) ==
    IF c = NullConn THEN w ELSE [w EXCEPT !.conns[c].fin = @ + 1]

\* ConnPool::terminate: the task posted to the dispatcher calls disp_terminate
terminate(w, c) == disp_terminate(w, c)

\* ------------------------------------------------------------ sending
\* MsgNetwork::send_msg -> Conn::write: the chunk goes to the send queue; the
\* worker of a live, installed connection writes it to the socket, from where the
\* other end reads it unless it has stopped reading
send_msg(w, m, c) ==
    IF Alive(w, c) /\ w.conns[c].setup
    THEN IF is_terminated(w, PeerEnd(c)) THEN w
         ELSE [w EXCEPT !.wire[PeerEnd(c)] = Append(@, m)]
    ELSE [w EXCEPT !.sbuf[c] = Append(@, m)]

\* Peer::get_nonce: draw r when the nonce is unset
get_nonce(p, r) == IF p.nonce = 0 THEN r ELSE p.nonce

\* ------------------------------------------------------------ pending map
PendingFind(w, n, a) == {o \in w.pend[n] : get_addr(w, o) = a}
PendingErase(w, n, a) == [w EXCEPT !.pend[n] = @ \ PendingFind(w, n, a)]

replace_pending_conn(w, n, c) ==
    LET a == get_addr(w, c)
        olds == PendingFind(w, n, a) \ {c}
        old == IF olds = {} THEN NullConn ELSE CHOOSE o \in olds : TRUE
        w1 == IF old # NullConn
              THEN PendingErase(disp_terminate(w, old), n, a)
              ELSE w
    IN  IF PendingFind(w1, n, a) = {} THEN [w1 EXCEPT !.pend[n] = @ \cup {c}] ELSE w1

\* ConnPool::_connect, then PeerNetwork::start_active_conn
start_active_conn(w, n) ==
    LET l == w.nlinks + 1
        c == 2 * l - 1
        w1 == [w EXCEPT !.nlinks = l, !.dialer[l] = n,
                        !.conns[c] = [NoConn EXCEPT !.mode = "ACTIVE"],
                        !.peers[n].outbound_conn = c]
    IN  replace_pending_conn(w1, n, c)

\* ------------------------------------------------------------ handshake
\* PeerNetwork::tcall_reset_timeout: the task on the worker re-arms the
\* connection's timeout watchdog, if it has one
tcall_reset_timeout(w, c, t) ==
    IF w.tmo[c] = Unarmed THEN w ELSE [w EXCEPT !.tmo[c] = t]

reset_ping_timer(w, n) == [w EXCEPT !.peers[n].ev_ping_timer = TRUE]

send_ping(w, n) ==
    LET w1 == [w EXCEPT !.peers[n].ping_timer_ok = FALSE,
                        !.peers[n].pong_msg_ok = FALSE]
        w2 == tcall_reset_timeout(w1, w1.peers[n].chosen_conn, conn_timeout)
    IN  send_msg(w2, MsgPing(NullAddr, 0), w2.peers[n].chosen_conn)

ClearBackPointer(w, c) ==
    IF c = NullConn THEN w
    ELSE [w EXCEPT !.conns[c].peer = FALSE, !.conns[c].stale = FALSE]

\* the chunks left in the old connection's send queue move to the new one
MoveSendBuffer(w, old, new) ==
    LET w1 == [w EXCEPT !.sbuf[old] = <<>>]
        F[i \in 0..Len(w.sbuf[old])] ==
            IF i = 0 THEN w1 ELSE send_msg(F[i - 1], w.sbuf[old][i], new)
    IN  F[Len(w.sbuf[old])]

\* finish_handshake that leaves the old connection's back-pointer set
finish_handshake_keep_old(w, n) ==
    LET p == w.peers[n]
        chosen == p.chosen_conn
        w1 == [w EXCEPT !.peers[n].ev_ping_timer = FALSE]
        w2 == IF p.inbound_conn # NullConn /\ p.inbound_conn # chosen
              THEN ClearBackPointer(w1, p.inbound_conn) ELSE w1
        w3 == IF p.outbound_conn # NullConn /\ p.outbound_conn # chosen
              THEN ClearBackPointer(w2, p.outbound_conn) ELSE w2
        w4 == [w3 EXCEPT !.peers[n].state = "CONNECTED"]
        w5 == send_ping(reset_ping_timer(w4, n), n)
        w6 == [w5 EXCEPT !.peers[n].ev_retry_timer = FALSE]
        w7 == IF p.conn # NullConn
              THEN MoveSendBuffer(w6, p.conn, chosen)
              ELSE w6
        w8 == [w7 EXCEPT !.peers[n].conn = chosen, !.conns[chosen].peer = TRUE,
                         !.conns[chosen].stale = FALSE, !.up[chosen] = @ + 1]
    IN  PendingErase(w8, n, get_addr(w8, chosen))

\* finish_handshake that leaves the retry timer armed
finish_handshake_keep_retry(w, n) ==
    LET p == w.peers[n]
        chosen == p.chosen_conn
        w1 == [w EXCEPT !.peers[n].ev_ping_timer = FALSE]
        w2 == IF p.inbound_conn # NullConn /\ p.inbound_conn # chosen
              THEN ClearBackPointer(w1, p.inbound_conn) ELSE w1
        w3 == IF p.outbound_conn # NullConn /\ p.outbound_conn # chosen
              THEN ClearBackPointer(w2, p.outbound_conn) ELSE w2
        w4 == [w3 EXCEPT !.peers[n].state = "CONNECTED"]
        w5 == send_ping(reset_ping_timer(w4, n), n)
        w7 == IF p.conn # NullConn
              THEN ClearBackPointer(MoveSendBuffer(w5, p.conn, chosen), p.conn)
              ELSE w5
        w8 == [w7 EXCEPT !.peers[n].conn = chosen, !.conns[chosen].peer = TRUE,
                         !.conns[chosen].stale = FALSE, !.up[chosen] = @ + 1]
    IN  PendingErase(w8, n, get_addr(w8, chosen))

finish_handshake(w, n) ==
    LET p == w.peers[n]
        chosen == p.chosen_conn
        \* clear_all_events
        w1 == [w EXCEPT !.peers[n].ev_ping_timer = FALSE]
        w2 == IF p.inbound_conn # NullConn /\ p.inbound_conn # chosen
              THEN ClearBackPointer(w1, p.inbound_conn) ELSE w1
        w3 == IF p.outbound_conn # NullConn /\ p.outbound_conn # chosen
              THEN ClearBackPointer(w2, p.outbound_conn) ELSE w2
        w4 == [w3 EXCEPT !.peers[n].state = "CONNECTED"]
        w5 == send_ping(reset_ping_timer(w4, n), n)
        w6 == [w5 EXCEPT !.peers[n].ev_retry_timer = FALSE]
        w7 == IF p.conn # NullConn
              THEN ClearBackPointer(MoveSendBuffer(w6, p.conn, chosen), p.conn)
              ELSE w6
        w8 == [w7 EXCEPT !.peers[n].conn = chosen, !.conns[chosen].peer = TRUE,
                         !.conns[chosen].stale = FALSE, !.up[chosen] = @ + 1]
    IN  PendingErase(w8, n, get_addr(w8, chosen))

\* on_setup that creates no ev_timeout
on_setup_no_timeout(w, n, c, r) ==
    LET w0 == [w EXCEPT !.conns[c].setup = TRUE]
        w1 == replace_pending_conn(w0, n, c)
    IN  IF w1.conns[c].mode = "ACTIVE"
        THEN LET nonce == get_nonce(w1.peers[n], r)
             IN  send_msg([w1 EXCEPT !.peers[n].nonce = nonce], MsgPing(n, nonce), c)
        ELSE w1

\* PeerNetwork::on_setup, run by the dispatcher once the connection is installed
on_setup(w, n, c, r) ==
    \* the task that creates ev_timeout, then the initial tcall_reset_timeout
    LET w0 == [w EXCEPT !.conns[c].setup = TRUE, !.tmo[c] = conn_timeout]
        w1 == replace_pending_conn(w0, n, c)
    IN  IF w1.conns[c].mode = "ACTIVE"
        THEN LET nonce == get_nonce(w1.peers[n], r)
             IN  send_msg([w1 EXCEPT !.peers[n].nonce = nonce], MsgPing(n, nonce), c)
        ELSE w1

\* on_teardown that leaves the peer's state as it was
on_teardown_keep_state(w, n, c) ==
    LET w1 == PendingErase(w, n, get_addr(w, c))
        p == w.peers[n]
        w2 == IF p.conn = c
              THEN [w1 EXCEPT !.peers[n].inbound_conn = NullConn,
                              !.peers[n].outbound_conn = NullConn,
                              !.peers[n].ev_ping_timer = FALSE,
                              !.peers[n].nonce = 0,
                              !.down[c] = @ + 1]
              ELSE w1
        ntry == IF p.ntry > 0 THEN p.ntry - 1 ELSE p.ntry
        w3 == [w2 EXCEPT !.peers[n].ntry = ntry]
    IN  IF ~w.conns[c].peer THEN w1
        ELSE IF ntry # 0 THEN [w3 EXCEPT !.peers[n].ev_retry_timer = TRUE] ELSE w3

\* on_teardown that leaves the ping timer armed
on_teardown_keep_ping(w, n, c) ==
    LET w1 == PendingErase(w, n, get_addr(w, c))
        p == w.peers[n]
        w2 == IF p.conn = c
              THEN [w1 EXCEPT !.peers[n].state = "DISCONNECTED",
                              !.peers[n].inbound_conn = NullConn,
                              !.peers[n].outbound_conn = NullConn,
                              !.peers[n].nonce = 0,
                              !.down[c] = @ + 1]
              ELSE w1
        ntry == IF p.ntry > 0 THEN p.ntry - 1 ELSE p.ntry
        w3 == [w2 EXCEPT !.peers[n].ntry = ntry]
    IN  IF ~w.conns[c].peer THEN w1
        ELSE IF ntry # 0 THEN [w3 EXCEPT !.peers[n].ev_retry_timer = TRUE] ELSE w3

\* PeerNetwork::on_teardown, run by the dispatcher's finalizer
on_teardown(w, n, c) ==
    LET w1 == PendingErase(w, n, get_addr(w, c))
        p == w.peers[n]
        reset == p.state = "RESET"
        w2 == IF p.conn = c
              THEN [w1 EXCEPT !.peers[n].state = "DISCONNECTED",
                              !.peers[n].inbound_conn = NullConn,
                              !.peers[n].outbound_conn = NullConn,
                              !.peers[n].ev_ping_timer = FALSE,
                              !.peers[n].nonce = 0,
                              !.down[c] = @ + 1]
              ELSE w1
        ntry == IF p.ntry > 0 THEN p.ntry - 1 ELSE p.ntry
        w3 == [w2 EXCEPT !.peers[n].ntry = ntry]
    IN  IF ~w.conns[c].peer THEN w1
        ELSE IF ntry # 0 THEN [w3 EXCEPT !.peers[n].ev_retry_timer = TRUE] ELSE w3

\* ConnPool::del_conn, the finalizer: erase from the pool, run the hook once
del_conn(w, n, c) ==
    on_teardown([w EXCEPT !.conns[c].fin = @ - 1, !.conns[c].torn = @ + 1], n, c)

\* ping_handler that answers a Ping from an unregistered peer instead of
\* terminating the connection
ping_handler_unknown_pong(w, n, m, c, r) ==
    IF is_terminated(w, c) THEN w
    ELSE IF m.claimed_addr = NullAddr THEN send_msg(w, MsgPong(NullAddr, 0), c)
    ELSE IF w.conns[c].mode # "PASSIVE" THEN w
    ELSE IF ~PeerKnown(w, n, get_peer_id(c, m.claimed_addr))
    THEN send_msg([w EXCEPT !.ucb[n] = @ + 1], MsgPong(n, passive_nonce), c)
    ELSE LET p == w.peers[n]
             pong_nonce == IF p.addr = NullAddr THEN passive_nonce ELSE get_nonce(p, r)
             nonce == get_nonce(p, r)
             old_conn == p.inbound_conn
             w1 == send_msg(w, MsgPong(n, pong_nonce), c)
             w2 == IF old_conn # NullConn /\ old_conn # c
                   THEN disp_terminate(w1, old_conn) ELSE w1
             w3 == [w2 EXCEPT !.peers[n].inbound_conn = c, !.peers[n].nonce = nonce]
         IN  IF p.state # "DISCONNECTED"
                \/ (p.addr # NullAddr /\ p.addr # m.claimed_addr)
             THEN w
             ELSE IF m.nonce < nonce \/ p.addr = NullAddr
                  THEN finish_handshake([w3 EXCEPT !.peers[n].chosen_conn = c], n)
                  ELSE disp_terminate(w3, c)

\* pong_handler without the check of the peer's state and address
pong_handler_no_drop(w, n, m, c, r) ==
    IF is_terminated(w, c) THEN w
    ELSE IF m.claimed_addr = NullAddr
    THEN IF ~w.conns[c].peer THEN w
         ELSE LET w1 == [w EXCEPT !.peers[n].pong_msg_ok = TRUE]
              IN  IF w.peers[n].ping_timer_ok
                  THEN send_ping(reset_ping_timer(w1, n), n) ELSE w1
    ELSE IF w.conns[c].mode # "ACTIVE" THEN w
    ELSE IF ~PeerKnown(w, n, get_peer_id(c, get_addr(w, c))) THEN disp_terminate(w, c)
    ELSE LET p == w.peers[n]
             nonce == get_nonce(p, r)
             old_conn == p.outbound_conn
             w1 == IF old_conn # NullConn /\ old_conn # c
                   THEN disp_terminate(w, old_conn) ELSE w
             w2 == [w1 EXCEPT !.peers[n].outbound_conn = c, !.peers[n].nonce = nonce]
         IN  IF nonce < m.nonce
             THEN finish_handshake(
                      reset_ping_timer([w2 EXCEPT !.peers[n].chosen_conn = c], n), n)
             ELSE disp_terminate([w2 EXCEPT !.peers[n].nonce = 0], c)

\* PeerNetwork::ping_handler, the task it posts to the dispatcher
ping_handler(w, n, m, c, r) ==
    IF is_terminated(w, c) THEN w
    ELSE IF m.claimed_addr = NullAddr THEN send_msg(w, MsgPong(NullAddr, 0), c)
    ELSE IF w.conns[c].mode # "PASSIVE" THEN w
    ELSE IF ~PeerKnown(w, n, get_peer_id(c, m.claimed_addr))
    THEN \* unknown_peer_cb is posted to the user thread
         disp_terminate([w EXCEPT !.ucb[n] = @ + 1], c)
    ELSE LET p == w.peers[n]
             pong_nonce == IF p.addr = NullAddr THEN passive_nonce ELSE get_nonce(p, r)
             nonce == get_nonce(p, r)
             old_conn == p.inbound_conn
             w1 == send_msg(w, MsgPong(n, pong_nonce), c)
             w2 == IF old_conn # NullConn /\ old_conn # c
                   THEN disp_terminate(w1, old_conn) ELSE w1
             w3 == [w2 EXCEPT !.peers[n].inbound_conn = c, !.peers[n].nonce = nonce]
         IN  IF p.state # "DISCONNECTED"
                \/ (p.addr # NullAddr /\ p.addr # m.claimed_addr)
             THEN w
             ELSE IF m.nonce < nonce \/ p.addr = NullAddr
                  THEN finish_handshake([w3 EXCEPT !.peers[n].chosen_conn = c], n)
                  ELSE disp_terminate(w3, c)

\* PeerNetwork::pong_handler, the task it posts to the dispatcher
pong_handler(w, n, m, c, r) ==
    IF is_terminated(w, c) THEN w
    ELSE IF m.claimed_addr = NullAddr
    THEN IF ~w.conns[c].peer THEN w
         ELSE LET w1 == [w EXCEPT !.peers[n].pong_msg_ok = TRUE]
              IN  IF w.peers[n].ping_timer_ok
                  THEN send_ping(reset_ping_timer(w1, n), n) ELSE w1
    ELSE IF w.conns[c].mode # "ACTIVE" THEN w
    ELSE IF ~PeerKnown(w, n, get_peer_id(c, get_addr(w, c))) THEN disp_terminate(w, c)
    ELSE LET p == w.peers[n]
             nonce == get_nonce(p, r)
             old_conn == p.outbound_conn
             w1 == IF old_conn # NullConn /\ old_conn # c
                   THEN disp_terminate(w, old_conn) ELSE w
             w2 == [w1 EXCEPT !.peers[n].outbound_conn = c, !.peers[n].nonce = nonce]
         IN  IF p.state # "DISCONNECTED" \/ p.addr # m.claimed_addr
             THEN w
             ELSE IF nonce < m.nonce
                  THEN finish_handshake(
                           reset_ping_timer([w2 EXCEPT !.peers[n].chosen_conn = c], n), n)
                  ELSE disp_terminate([w2 EXCEPT !.peers[n].nonce = 0], c)

\* conn_peer that dials at once for a CONNECTED peer instead of terminating the
\* established connection first
conn_peer_no_reset(w, n, ntry) ==
    LET p == w.peers[n]
        w1 == [w EXCEPT !.peers[n].ntry = ntry,
                        !.peers[n].inbound_conn = NullConn,
                        !.peers[n].outbound_conn = NullConn,
                        !.peers[n].ev_ping_timer = FALSE,
                        !.peers[n].nonce = 0]
    IN  IF p.conn = NullConn \/ p.state = "DISCONNECTED"
        THEN start_active_conn(w1, n)
        ELSE IF p.state = "CONNECTED"
             THEN start_active_conn([w1 EXCEPT !.peers[n].state = "DISCONNECTED"], n)
             ELSE w1

\* PeerNetwork::conn_peer, the task it posts to the dispatcher (the peer is
\* registered and has an address)
conn_peer(w, n, ntry) ==
    LET p == w.peers[n]
        w1 == [w EXCEPT !.peers[n].ntry = ntry,
                        !.peers[n].inbound_conn = NullConn,
                        !.peers[n].outbound_conn = NullConn,
                        !.peers[n].ev_ping_timer = FALSE,
                        !.peers[n].nonce = 0]
    IN  IF p.conn = NullConn \/ p.state = "DISCONNECTED"
        THEN start_active_conn(w1, n)
        ELSE IF p.state = "CONNECTED"
             THEN disp_terminate([w1 EXCEPT !.peers[n].state = "RESET"], p.conn)
             ELSE w1

\* Peer::ping_timer
ping_timer(w, n) ==
    LET w1 == [w EXCEPT !.peers[n].ev_ping_timer = FALSE,
                        !.peers[n].ping_timer_ok = TRUE]
    IN  IF w.peers[n].pong_msg_ok
        THEN send_ping(reset_ping_timer(w1, n), n) ELSE w1

\* ------------------------------------------------------------ actions
NtryInputs == {-1}

NoMsg == [id |-> 0, opcode |-> "none", length |-> 0, checksum |-> 0, payload |-> <<>>]

NotAsked == [ntry |-> 0, base |-> -1]

\* the workers of a pool are numbered from 0; worker 0 is the dispatcher
MaxWorkers == 3
MaxNconn == 3
Workers == 0..(MaxWorkers - 1)
NoWorker == MaxWorkers

\* A connection that has not been handed to a worker.  feed: the feed task
\* (none, posted, installed, discarded); handler: the send queue's handler is
\* registered; ev: the events ev_socket is added with; notified: the queue's
\* notification is pending on the worker's loop; wait_sig: the queue's flag that
\* the next producer has to notify; wpc: the worker's position in send_data;
\* prod: the producer's position in push; room: chunks the socket can take
NoIo == [feed |-> "none", handler |-> FALSE, ev |-> {}, ready_send |-> FALSE,
         notified |-> FALSE, wait_sig |-> TRUE, wpc |-> "idle", prod |-> "idle",
         room |-> 0]

\* Both threads outside their critical sections.  user, disp: the position of
\* each thread; op: the dispatcher's task; raced: the dispatcher wrote while the
\* user's read was under way; got: what the user's last read returned; sends:
\* the send_msg calls made
NoRace == [user |-> "idle", disp |-> "idle", op |-> "none", raced |-> FALSE,
           got |-> 0, sends |-> 0]

\* one worker, the dispatcher, with no connection
InitPool ==
    /\ nworker = 1
    /\ nconn = [i \in Workers |-> 0]
    /\ selected = NoWorker
    /\ written = <<>>
    /\ io = NoIo
    /\ race = NoRace

\* no ClientNetwork connection has been accepted
InitCli ==
    /\ addr2conn = [a \in ClientAddrs |-> NullConn]
    /\ remote_addr = [c \in ConnIds |-> NullAddr]
    /\ InitPool

InitAux ==
    /\ silent = [n \in Nodes |-> FALSE]
    /\ asked = [n \in Nodes |-> NotAsked]
    /\ queue_capacity = 0
    /\ submitted = <<>>
    /\ calls = 0
    /\ InitCli

\* every node has the other one registered; nothing has been reported
InitReg ==
    /\ known_peers = [n \in Nodes |-> TRUE]
    /\ unknown_cb = [n \in Nodes |-> 0]
    /\ errors = <<>>

InitMsg ==
    /\ socket = <<>>
    /\ nframes = 0
    /\ recv_buffer = <<>>
    /\ msg = NoMsg
    /\ msg_state = "HEADER"
    /\ msg_sleep = FALSE
    /\ ev_enqueue_poll = FALSE
    /\ incoming_msgs = <<>>
    /\ handled = <<>>
    /\ reported = <<>>

Init ==
    /\ conns = [c \in ConnIds |-> NoConn]
    /\ peers \in {f \in [Nodes -> {NoPeer(a) : a \in {NullAddr, 1, 2}}] :
                    f[1].addr = 2 /\ f[2].addr \in {NullAddr, 1}}
    /\ pending_peers = [n \in Nodes |-> {}]
    /\ wire = [c \in ConnIds |-> <<>>]
    /\ send_buffer = [c \in ConnIds |-> <<>>]
    /\ nlinks = 0
    /\ dialer = [l \in Links |-> 0]
    /\ peer_up = [c \in ConnIds |-> 0]
    /\ peer_down = [c \in ConnIds |-> 0]
    /\ used = [conn_peer |-> 0, event |-> 0]
    /\ sent_nonce = [n \in Nodes |-> 0]
    /\ ev_timeout = [c \in ConnIds |-> Unarmed]
    /\ InitMsg
    /\ InitAux
    /\ InitReg

\* the user calls conn_peer(pid, ntry, retry_delay)
ConnPeer(n) ==
    /\ used.conn_peer < MaxConnPeer
    /\ peers[n].addr # NullAddr
    /\ (peers[n].conn = NullConn \/ peers[n].state = "DISCONNECTED") => nlinks < MaxLinks
    /\ \E ntry \in NtryInputs : Commit(conn_peer(World, n, ntry))
    /\ used' = [used EXCEPT !.conn_peer = @ + 1]
    /\ UNCHANGED <<sent_nonce, msg_vars, aux_vars>>

\* the retry timer fires: dial again and re-arm
RetryTimer(n) ==
    /\ peers[n].ev_retry_timer
    /\ nlinks < MaxLinks
    /\ Commit(start_active_conn(World, n))
    /\ UNCHANGED <<used, sent_nonce, msg_vars, aux_vars>>

\* the ping timer fires
PingTimer(n) ==
    /\ peers[n].ev_ping_timer
    /\ used.event < MaxEvents
    /\ Commit(ping_timer(World, n))
    /\ used' = [used EXCEPT !.event = @ + 1]
    /\ UNCHANGED <<sent_nonce, msg_vars, aux_vars>>

\* The dialed link is established.  The listening node accepts it
\* (accept_client), installs the PASSIVE end and runs on_setup, which only enters
\* the new end in the pending map under its own unique address; the dialing node
\* installs the ACTIVE end and runs on_setup, which sends the handshake Ping.
Establish(c) ==
    /\ IsActiveEnd(c)
    /\ conns[c].mode = "ACTIVE"
    /\ ~conns[c].setup
    /\ LET d == PeerEnd(c)
           w == [World EXCEPT !.conns[d] = [NoConn EXCEPT !.mode = "PASSIVE"]]
           w1 == on_setup(w, NodeOf(w, d), d, 0)
       IN  \E r \in Nonces : Commit(on_setup(w1, NodeOf(w1, c), c, r))
    /\ UNCHANGED <<used, sent_nonce, msg_vars, aux_vars>>

\* a message reaches its handler: read by the worker, queued for the user
\* thread, whose handler posts the task to the dispatcher
Deliver(c) ==
    /\ conns[c].setup
    /\ wire[c] # <<>>
    /\ LET m == Head(wire[c])
           w == [World EXCEPT !.wire[c] = Tail(@)]
           n == NodeOf(w, c)
       IN  \E r \in Nonces :
               Commit(IF m.op = "Ping" THEN ping_handler(w, n, m, c, r)
                                        ELSE pong_handler(w, n, m, c, r))
    /\ UNCHANGED <<used, sent_nonce, msg_vars, aux_vars>>

\* an I/O error, a closed socket, a failed connect or the timeout watchdog:
\* the worker terminates the connection
IOError(c) ==
    /\ Alive(World, c)
    /\ used.event < MaxEvents
    /\ Commit(worker_terminate(World, c))
    /\ used' = [used EXCEPT !.event = @ + 1]
    /\ UNCHANGED <<sent_nonce, msg_vars, aux_vars>>

\* the other end has been finalized and its socket closed: the worker's read
\* fails and it terminates the connection
PeerClosed(c) ==
    /\ Alive(World, c)
    /\ conns[c].setup
    /\ conns[PeerEnd(c)].torn > 0
    /\ Commit(worker_terminate(World, c))
    /\ UNCHANGED <<used, sent_nonce, msg_vars, aux_vars>>

\* the user calls terminate(conn)
Terminate(c) ==
    /\ conns[c].mode # "NONE"
    /\ used.event < MaxEvents
    /\ Commit(terminate(World, c))
    /\ used' = [used EXCEPT !.event = @ + 1]
    /\ UNCHANGED <<sent_nonce, msg_vars, aux_vars>>

\* the worker runs a stop task posted by disp_terminate
WorkerStop(c) ==
    /\ conns[c].stop > 0
    /\ Commit(worker_terminate([World EXCEPT !.conns[c].stop = @ - 1], c))
    /\ UNCHANGED <<used, sent_nonce, msg_vars, aux_vars>>

\* the dispatcher runs a finalizer
DelConn(c) ==
    /\ conns[c].fin > 0
    /\ Commit(del_conn(World, NodeOf(World, c), c))
    /\ UNCHANGED <<used, sent_nonce, msg_vars, aux_vars>>

Next ==
    \/ \E n \in Nodes : ConnPeer(n)
    \/ \E n \in Nodes : RetryTimer(n)
    \/ \E n \in Nodes : PingTimer(n)
    \/ \E c \in ConnIds : Establish(c)
    \/ \E c \in ConnIds : Deliver(c)
    \/ \E c \in ConnIds : IOError(c)
    \/ \E c \in ConnIds : PeerClosed(c)
    \/ \E c \in ConnIds : Terminate(c)
    \/ \E c \in ConnIds : WorkerStop(c)
    \/ \E c \in ConnIds : DelConn(c)

Spec == Init /\ [][Next]_vars

\* ------------------------------------------------------------ dial scenario
\* Each node that has the other's address calls conn_peer at most once, before
\* it has handled a handshake Ping of the other node; no
\* spontaneous I/O error, no user terminate; the ping timer (30 s) does not fire
\* while the handshake settles.  No retry timer is ever armed here: a
\* connection that is torn down was never bound to a dialing peer.
Dialed(n) == \E l \in Links : dialer[l] = n

DialOnce(n) ==
    /\ ~Dialed(n)
    /\ peers[n].nonce = 0 /\ peers[n].inbound_conn = NullConn
    /\ peers[n].addr # NullAddr
    /\ nlinks < MaxLinks
    /\ \E ntry \in NtryInputs : Commit(conn_peer(World, n, ntry))
    /\ UNCHANGED <<used, sent_nonce, msg_vars, aux_vars>>

\* Establish, recording the nonce of the node's first handshake Ping
EstablishDial(c) ==
    /\ IsActiveEnd(c)
    /\ conns[c].mode = "ACTIVE"
    /\ ~conns[c].setup
    /\ LET d == PeerEnd(c)
           w == [World EXCEPT !.conns[d] = [NoConn EXCEPT !.mode = "PASSIVE"]]
           w1 == on_setup(w, NodeOf(w, d), d, 0)
           n == NodeOf(w1, c)
       IN  \E r \in Nonces :
               LET w2 == on_setup(w1, n, c, r)
               IN  /\ Commit(w2)
                   /\ sent_nonce' = IF sent_nonce[n] = 0
                                    THEN [sent_nonce EXCEPT ![n] = w2.peers[n].nonce]
                                    ELSE sent_nonce
    /\ UNCHANGED <<used, msg_vars, aux_vars>>

\* the timeout watchdog armed by on_setup expires (conn_timeout after the last
\* send_ping on the connection): the worker terminates the connection.  A
\* CONNECTED peer's heartbeat keeps resetting the watchdog of its chosen
\* connection, and conn_timeout outlasts a handshake in flight.
Heartbeating(c) ==
    \E n \in Nodes : peers[n].state = "CONNECTED" /\ peers[n].chosen_conn = c

InHandshake(c) ==
    \E i \in 1..Len(wire[c]) : wire[c][i].claimed_addr # NullAddr

Watchdog(c) ==
    /\ Alive(World, c)
    /\ conns[c].setup
    /\ ~Heartbeating(c)
    /\ ~InHandshake(c) /\ ~InHandshake(PeerEnd(c))
    /\ Commit(worker_terminate(World, c))
    /\ UNCHANGED <<used, sent_nonce, msg_vars, aux_vars>>

NextDial ==
    \/ \E n \in Nodes : DialOnce(n)
    \/ \E c \in ConnIds : Watchdog(c)
    \/ \E c \in ConnIds : EstablishDial(c)
    \/ \E c \in ConnIds : Deliver(c)
    \/ \E c \in ConnIds : PeerClosed(c)
    \/ \E c \in ConnIds : WorkerStop(c)
    \/ \E c \in ConnIds : DelConn(c)

SpecDial == Init /\ [][NextDial]_vars

\* ------------------------------------------------------------ retry scenario
\* Node 1 calls conn_peer with a retry policy; node 2 never dials.  A connection
\* can fail at any point (a refused or timed-out connect, an I/O error), and the
\* retry timer, once armed, fires again and again until a handshake finishes.
RetryInputs == {-1, 0, 1, 2}

ConnPeerAsk(n) ==
    /\ n = 1
    /\ used.conn_peer < MaxAsks
    /\ peers[n].addr # NullAddr
    /\ (peers[n].conn = NullConn \/ peers[n].state = "DISCONNECTED") => nlinks < MaxDials
    /\ \E ntry \in RetryInputs :
        /\ Commit(conn_peer(World, n, ntry))
        /\ asked' = [asked EXCEPT ![n] = [ntry |-> ntry, base |-> nlinks]]
    /\ used' = [used EXCEPT !.conn_peer = @ + 1]
    /\ UNCHANGED <<sent_nonce, msg_vars, silent, queue_capacity, submitted, calls, cli_vars>>

\* the retry timer's callback: start_active_conn, then the timer is armed again
RetryFire(n) ==
    /\ peers[n].ev_retry_timer
    /\ nlinks < MaxDials
    /\ Commit(start_active_conn(World, n))
    /\ UNCHANGED <<used, sent_nonce, msg_vars, aux_vars>>

NextRetry ==
    \/ \E n \in Nodes : ConnPeerAsk(n)
    \/ \E n \in Nodes : RetryFire(n)
    \/ \E c \in ConnIds : Establish(c)
    \/ \E c \in ConnIds : Deliver(c)
    \/ \E c \in ConnIds : IOError(c)
    \/ \E c \in ConnIds : PeerClosed(c)
    \/ \E c \in ConnIds : WorkerStop(c)
    \/ \E c \in ConnIds : DelConn(c)

SpecRetry == Init /\ [][NextRetry]_vars

\* Every task posted to a worker or to the dispatcher runs, every message read
\* reaches its handler and every armed timer fires.
SpecRetryFair ==
    /\ SpecRetry
    /\ \A n \in Nodes : WF_vars(RetryFire(n))
    /\ \A c \in ConnIds : WF_vars(Establish(c))
    /\ \A c \in ConnIds : WF_vars(Deliver(c))
    /\ \A c \in ConnIds : WF_vars(PeerClosed(c))
    /\ \A c \in ConnIds : WF_vars(WorkerStop(c))
    /\ \A c \in ConnIds : WF_vars(DelConn(c))

\* ------------------------------------------------------------ liveness scenario
\* Node 1 calls conn_peer once; node 2 never dials and may fall silent for
\* good: its threads are blocked, so it handles nothing, answers nothing and
\* closes nothing.  Time passes in ticks; Conn::ev_timeout counts them down.
\* The scenario ends where the retry timer is armed or left alone.
Awake(c) == conns[c].mode # "NONE" /\ ~silent[NodeOf(World, c)]

\* a tick of the clock; a timer that has run out fires before the next tick
Tick ==
    /\ \E c \in ConnIds : Awake(c) /\ ev_timeout[c] # Unarmed
    /\ \A c \in ConnIds : Awake(c) => ev_timeout[c] # 0
    /\ ev_timeout' = [c \in ConnIds |->
                        IF ev_timeout[c] = Unarmed \/ ~Awake(c) THEN ev_timeout[c]
                        ELSE ev_timeout[c] - 1]
    /\ UNCHANGED <<conns, peers, pending_peers, wire, send_buffer, nlinks, dialer,
                   peer_up, peer_down, reg_vars, used, sent_nonce, msg_vars, aux_vars>>

\* the ev_timeout callback created by on_setup: worker_terminate(conn)
WatchdogFire(c) ==
    /\ Awake(c)
    /\ ev_timeout[c] = 0
    /\ Commit(worker_terminate(World, c))
    /\ UNCHANGED <<used, sent_nonce, msg_vars, aux_vars>>

Silence(n) ==
    /\ n = 2
    /\ ~silent[n]
    /\ silent' = [silent EXCEPT ![n] = TRUE]
    /\ UNCHANGED <<conns, peers, pending_peers, wire, send_buffer, nlinks, dialer,
                   peer_up, peer_down, reg_vars, ev_timeout, used, sent_nonce, msg_vars, asked,
                   queue_capacity, submitted, calls, cli_vars>>

EstablishAwake(c) == ~silent[1] /\ ~silent[2] /\ Establish(c)
DeliverAwake(c) == Awake(c) /\ Deliver(c)
PeerClosedAwake(c) == Awake(c) /\ PeerClosed(c)
WorkerStopAwake(c) == Awake(c) /\ WorkerStop(c)
DelConnAwake(c) == Awake(c) /\ DelConn(c)

NextWatch ==
    \/ \E n \in Nodes : ConnPeerAsk(n)
    \/ \E n \in Nodes : PingTimer(n)
    \/ \E n \in Nodes : Silence(n)
    \/ Tick
    \/ \E c \in ConnIds : WatchdogFire(c)
    \/ \E c \in ConnIds : EstablishAwake(c)
    \/ \E c \in ConnIds : DeliverAwake(c)
    \/ \E c \in ConnIds : PeerClosedAwake(c)
    \/ \E c \in ConnIds : WorkerStopAwake(c)
    \/ \E c \in ConnIds : DelConnAwake(c)

SpecWatch == Init /\ [][NextWatch]_vars

\* Time passes, a timer that has run out fires, and the tasks posted to a
\* worker or to the dispatcher of a node that is awake run.
SpecWatchFair ==
    /\ SpecWatch
    /\ WF_vars(Tick)
    /\ WF_vars(\E c \in ConnIds : WatchdogFire(c))
    /\ WF_vars(\E c \in ConnIds : WorkerStopAwake(c))
    /\ WF_vars(\E c \in ConnIds : DelConnAwake(c))

\* ------------------------------------------------------------ framed messages
\* The receiving side of one connection, RC.  The remote end writes frames: a
\* header, then length payload bytes.  A header is read as one unit.
RC == 2

Opcodes == {"known", "unknown"}
handler_map == {"known"}

\* Msg::verify_checksum: the header's checksum against the payload's
checksum_of(payload) == Len(payload) % 2
verify_checksum(m) == m.checksum = checksum_of(m.payload)

HeaderOf(id, op, len, sum) ==
    [id |-> id, opcode |-> op, length |-> len, checksum |-> sum, payload |-> <<>>]
Payload(len) == [i \in 1..len |-> 1]

\* the length test of on_read on a new header
oversized_ge(m) == m.length >= max_msg_size

oversized(m) == m.length > max_msg_size

\* the receiving state of RC as one record
Rx == [recv_buffer |-> recv_buffer, msg |-> msg, msg_state |-> msg_state,
       msg_sleep |-> msg_sleep, ev_enqueue_poll |-> ev_enqueue_poll,
       incoming_msgs |-> incoming_msgs, thrown |-> "none"]

\* MPSCQueue::enqueue(item, false) on the bounded queue
queue_full(k) == Len(k.incoming_msgs) >= max_msg_queue_size

\* MsgNetwork::on_read, the parse loop
RECURSIVE on_read_loop(_)
on_read_loop(k) ==
    LET h == Head(k.recv_buffer)
        k1 == IF k.msg_state = "HEADER"
              THEN [k EXCEPT !.msg = h, !.recv_buffer = Tail(@), !.msg_state = "PAYLOAD"]
              ELSE k
        len == k1.msg.length
        k2 == [k1 EXCEPT !.msg.payload = SubSeq(k1.recv_buffer, 1, len),
                         !.recv_buffer = SubSeq(@, len + 1, Len(@)),
                         !.msg_state = "HEADER"]
    IN  IF k.msg_state = "HEADER" /\ k.recv_buffer = <<>> THEN k
        ELSE IF k.msg_state = "HEADER" /\ oversized(h)
        THEN [k EXCEPT !.msg = h, !.recv_buffer = Tail(@),
                       !.thrown = "CONN_OVERSIZED_MSG"]
        ELSE IF Len(k1.recv_buffer) < len THEN k1
        ELSE IF ~verify_checksum(k2.msg) THEN k2
        ELSE IF queue_full(k2)
        THEN [k2 EXCEPT !.msg_sleep = TRUE, !.ev_enqueue_poll = TRUE]
        ELSE on_read_loop([k2 EXCEPT !.incoming_msgs = Append(@, k2.msg)])

\* MsgNetwork::on_read.  ready_recv is false: the receive buffer was never full.
on_read(k) == IF k.msg_sleep THEN k ELSE on_read_loop(k)

\* the poll callback that resumes parsing before it enqueues the waiting message
enqueue_poll_read_first(k) ==
    IF queue_full(k)
    THEN [k EXCEPT !.msg_sleep = TRUE, !.ev_enqueue_poll = TRUE]
    ELSE LET k1 == on_read([k EXCEPT !.msg_sleep = FALSE, !.ev_enqueue_poll = FALSE])
         IN  [k1 EXCEPT !.incoming_msgs = Append(@, k.msg)]

\* the poll callback that does not re-arm the timer when the queue is still full
enqueue_poll_no_rearm(k) ==
    IF queue_full(k)
    THEN [k EXCEPT !.msg_sleep = TRUE, !.ev_enqueue_poll = FALSE]
    ELSE on_read([k EXCEPT !.incoming_msgs = Append(@, k.msg),
                           !.msg_sleep = FALSE, !.ev_enqueue_poll = FALSE])

\* the ev_enqueue_poll callback installed by MsgNetwork::on_setup
enqueue_poll(k) ==
    IF queue_full(k)
    THEN [k EXCEPT !.msg_sleep = TRUE, !.ev_enqueue_poll = TRUE]
    ELSE on_read([k EXCEPT !.incoming_msgs = Append(@, k.msg),
                           !.msg_sleep = FALSE, !.ev_enqueue_poll = FALSE])

\* The worker's step ends: an error thrown by on_read is reported and the
\* worker terminates the connection.
CommitRx(k) ==
    /\ recv_buffer' = k.recv_buffer
    /\ msg' = k.msg
    /\ msg_state' = k.msg_state
    /\ msg_sleep' = k.msg_sleep
    /\ ev_enqueue_poll' = k.ev_enqueue_poll
    /\ incoming_msgs' = k.incoming_msgs
    /\ reported' = IF k.thrown = "none" THEN reported
                   ELSE Append(reported, [kind |-> k.thrown, id |-> k.msg.id,
                                          length |-> k.msg.length])
    /\ Commit(IF k.thrown = "none" THEN World ELSE worker_terminate(World, RC))

\* a MsgNetwork connection, set up, before the remote end has written a frame
InitCodec ==
    /\ conns = [c \in ConnIds |->
                  IF c = 1 THEN [NoConn EXCEPT !.mode = "ACTIVE", !.setup = TRUE]
                  ELSE IF c = RC THEN [NoConn EXCEPT !.mode = "PASSIVE", !.setup = TRUE]
                  ELSE NoConn]
    /\ peers = [n \in Nodes |-> NoPeer(NullAddr)]
    /\ pending_peers = [n \in Nodes |-> {}]
    /\ wire = [c \in ConnIds |-> <<>>]
    /\ send_buffer = [c \in ConnIds |-> <<>>]
    /\ nlinks = 1
    /\ dialer = [l \in Links |-> IF l = 1 THEN 1 ELSE 0]
    /\ peer_up = [c \in ConnIds |-> 0]
    /\ peer_down = [c \in ConnIds |-> 0]
    /\ used = [conn_peer |-> 0, event |-> 0]
    /\ sent_nonce = [n \in Nodes |-> 0]
    /\ ev_timeout = [c \in ConnIds |-> Unarmed]
    /\ InitMsg
    /\ InitAux
    /\ InitReg

\* the remote end writes one frame, of any opcode, length and checksum
SendFrame ==
    /\ nframes < MaxFrames
    /\ \E op \in Opcodes, len \in 0..(max_msg_size + 1), sum \in {0, 1} :
           socket' = socket \o <<HeaderOf(nframes + 1, op, len, sum)>> \o Payload(len)
    /\ nframes' = nframes + 1
    /\ UNCHANGED <<conns, peers, pending_peers, wire, send_buffer, nlinks, dialer,
                   peer_up, peer_down, reg_vars, ev_timeout, used, sent_nonce, recv_buffer, msg,
                   msg_state, msg_sleep, ev_enqueue_poll, incoming_msgs, handled,
                   reported, aux_vars>>

\* the socket is readable: recv_data appends what it reads to the receive buffer
\* and calls on_read
RecvData ==
    /\ Alive(World, RC)
    /\ \E n \in 1..Len(socket) :
        /\ socket' = SubSeq(socket, n + 1, Len(socket))
        /\ CommitRx(on_read([Rx EXCEPT !.recv_buffer = @ \o SubSeq(socket, 1, n)]))
    /\ UNCHANGED <<used, sent_nonce, nframes, handled, aux_vars>>

\* ev_enqueue_poll fires on the worker; on_teardown clears the timer
EnqueuePoll ==
    /\ ev_enqueue_poll
    /\ conns[RC].torn = 0
    /\ CommitRx(enqueue_poll(Rx))
    /\ UNCHANGED <<used, sent_nonce, socket, nframes, handled, aux_vars>>

\* the user thread's handler of incoming_msgs takes one item and calls the
\* handler registered for its opcode
UserDrain ==
    /\ incoming_msgs # <<>>
    /\ incoming_msgs' = Tail(incoming_msgs)
    /\ handled' = IF Head(incoming_msgs).opcode \in handler_map
                  THEN Append(handled, [id |-> Head(incoming_msgs).id,
                                        length |-> Head(incoming_msgs).length,
                                        mode |-> conns[RC].mode])
                  ELSE handled
    /\ UNCHANGED <<conns, peers, pending_peers, wire, send_buffer, nlinks, dialer,
                   peer_up, peer_down, reg_vars, ev_timeout, used, sent_nonce, socket, nframes,
                   recv_buffer, msg, msg_state, msg_sleep, ev_enqueue_poll, reported,
                   aux_vars>>

NextCodec ==
    \/ SendFrame
    \/ RecvData
    \/ EnqueuePoll
    \/ UserDrain
    \/ IOError(RC)
    \/ Terminate(RC)
    \/ WorkerStop(RC)
    \/ DelConn(RC)

SpecCodec == InitCodec /\ [][NextCodec]_vars

\* ------------------------------------------------------------ send path
\* One MsgNetwork connection end to end: the user thread of the sending node
\* calls send_msg on connection SC, SC's worker writes the send queue to the
\* socket, and RC, the other end, receives as above.
SC == 1

\* MsgBase::serialize: the header, with the checksum of the payload, then the payload
serialize(m) ==
    <<HeaderOf(m.id, m.opcode, m.length, checksum_of(Payload(m.length)))>>
        \o Payload(m.length)

\* MPSCWriteBuffer::push(data, unbounded): a bounded push fails on a queue that
\* holds capacity chunks and leaves it as it was
push(q, data, unbounded, capacity) ==
    IF ~unbounded /\ Len(q) >= capacity
    THEN [ok |-> FALSE, q |-> q]
    ELSE [ok |-> TRUE, q |-> Append(q, data)]

\* write that always asks for a bounded push
write_bounded(q, data, capacity) == push(q, data, FALSE, capacity)

\* write that puts the chunk at the front of the send queue
write_front(q, data, capacity) ==
    IF capacity # 0 /\ Len(q) >= capacity
    THEN [ok |-> FALSE, q |-> q]
    ELSE [ok |-> TRUE, q |-> <<data>> \o q]

\* Conn::write: send_buffer.push(data, !cpool->queue_capacity)
write(q, data, capacity) == push(q, data, capacity = 0, capacity)

\* MsgNetwork::_send_msg
send_msg_data(q, m, capacity) == write(q, serialize(m), capacity)

InitFlow ==
    /\ conns = [c \in ConnIds |->
                  IF c = SC THEN [NoConn EXCEPT !.mode = "ACTIVE", !.setup = TRUE]
                  ELSE IF c = RC THEN [NoConn EXCEPT !.mode = "PASSIVE", !.setup = TRUE]
                  ELSE NoConn]
    /\ peers = [n \in Nodes |-> NoPeer(NullAddr)]
    /\ pending_peers = [n \in Nodes |-> {}]
    /\ wire = [c \in ConnIds |-> <<>>]
    /\ send_buffer = [c \in ConnIds |-> <<>>]
    /\ nlinks = 1
    /\ dialer = [l \in Links |-> IF l = 1 THEN 1 ELSE 0]
    /\ peer_up = [c \in ConnIds |-> 0]
    /\ peer_down = [c \in ConnIds |-> 0]
    /\ ev_timeout = [c \in ConnIds |-> Unarmed]
    /\ used = [conn_peer |-> 0, event |-> 0]
    /\ sent_nonce = [n \in Nodes |-> 0]
    /\ InitMsg
    /\ silent = [n \in Nodes |-> FALSE]
    /\ asked = [n \in Nodes |-> NotAsked]
    /\ queue_capacity \in 0..MaxCapacity
    /\ submitted = <<>>
    /\ calls = 0
    /\ InitCli
    /\ InitReg

\* the user thread calls send_msg(m, SC) and notes what it returns
SendMsg ==
    /\ Len(submitted) < MaxSends
    /\ \E op \in Opcodes, len \in 0..(max_msg_size + 1) :
        LET m == [id |-> Len(submitted) + 1, opcode |-> op, length |-> len]
            r == send_msg_data(send_buffer[SC], m, queue_capacity)
        IN  /\ send_buffer' = [send_buffer EXCEPT ![SC] = r.q]
            /\ submitted' = Append(submitted, [id |-> m.id, opcode |-> op,
                                               length |-> len, ok |-> r.ok])
    /\ UNCHANGED <<conns, peers, pending_peers, wire, nlinks, dialer, peer_up,
                   peer_down, reg_vars, ev_timeout, used, sent_nonce, msg_vars, silent, asked,
                   queue_capacity, calls, cli_vars>>

\* SC's worker finds the socket writable: send_data writes the chunk at the
\* head of the send queue
SendData ==
    /\ Alive(World, SC)
    /\ send_buffer[SC] # <<>>
    /\ socket' = socket \o Head(send_buffer[SC])
    /\ nframes' = nframes + 1
    /\ send_buffer' = [send_buffer EXCEPT ![SC] = Tail(@)]
    /\ UNCHANGED <<conns, peers, pending_peers, wire, nlinks, dialer, peer_up,
                   peer_down, reg_vars, ev_timeout, used, sent_nonce, recv_buffer, msg,
                   msg_state, msg_sleep, ev_enqueue_poll, incoming_msgs, handled,
                   reported, aux_vars>>

NextFlow ==
    \/ SendMsg
    \/ SendData
    \/ RecvData
    \/ EnqueuePoll
    \/ UserDrain
    \/ IOError(RC)
    \/ DelConn(RC)

SpecFlow == InitFlow /\ [][NextFlow]_vars

\* The user thread keeps draining the inbound queue and a zero-delay timer that
\* is armed fires.
SpecFlowFair == SpecFlow /\ WF_vars(UserDrain) /\ WF_vars(EnqueuePoll)

\* ------------------------------------------------------------ registry scenario
\* The user of node 1 works on its peer, node 2, through the deferred entry
\* points: every call takes the next async-id and posts a task to the
\* dispatcher.  Node 2 only listens; it may or may not have node 1 registered.
\* Stranger is an address, and PeerId, that nobody registers.  A step that
\* dereferences a null or stale pointer has every outcome: the process
\* crashes, the access is lost, or a stale pointer hits the Peer now registered.
MaxCalls == 4
MaxRegDials == 1
Stranger == 3

\* PeerNetwork::Config::allow_unknown_peer at its default; the constructor stores
\* it and nothing reads it
allow_unknown_peer == FALSE

\* MsgNetwork::gen_async_id: the next id
gen_async_id == calls + 1

recoverable_error(w, id, code) ==
    [w EXCEPT !.err = Append(@, [id |-> id, code |-> code, fatal |-> FALSE])]

crash(w) == [w EXCEPT !.err = Append(@, [id |-> 0, code |-> "crash", fatal |-> TRUE])]

\* an assert that fails in a build that keeps asserts
assert_abort(w) == [w EXCEPT !.err = Append(@, [id |-> 0, code |-> "assert", fatal |-> TRUE])]

Crashed == \E i \in 1..Len(errors) : errors[i].code \in {"crash", "assert"}

\* PeerNetwork::add_peer, the task on the dispatcher; the new Peer's nonce is
\* not initialized by the constructor: r is what the memory holds
add_peer(w, n, id, r) ==
    IF w.known[n] THEN recoverable_error(w, id, "PEER_ALREADY_EXISTS")
    ELSE [w EXCEPT !.known[n] = TRUE,
                   !.peers[n] = [NoPeer(NullAddr) EXCEPT !.nonce = r]]

\* PeerNetwork::conn_peer, the whole task on the dispatcher
conn_peer_deferred(w, n, ntry, id) ==
    IF ~w.known[n] THEN recoverable_error(w, id, "PEER_NOT_EXIST")
    ELSE IF w.peers[n].addr = NullAddr THEN recoverable_error(w, id, "PEER_NOT_READY")
    ELSE conn_peer(w, n, ntry)

\* PeerNetwork::set_peer_addr, the task on the dispatcher
set_peer_addr(w, n, addr, id) ==
    IF ~w.known[n] THEN recoverable_error(w, id, "PEER_NOT_EXIST")
    ELSE [w EXCEPT !.peers[n].addr = addr]

\* PeerNetwork::del_peer, the task on the dispatcher.  Erasing the entry
\* destroys the Peer: ~Peer clears the back-pointers of inbound_conn and
\* outbound_conn, the Peer's timers go with it, and a back-pointer held by any
\* other connection of the node is left pointing at the destroyed Peer.
del_peer(w, n, id) ==
    IF ~w.known[n] THEN recoverable_error(w, id, "PEER_NOT_EXIST")
    ELSE LET p == w.peers[n]
             w1 == disp_terminate(w, p.conn)
             w2 == ClearBackPointer(ClearBackPointer(w1, p.inbound_conn),
                                    p.outbound_conn)
             w3 == [w2 EXCEPT
                      !.known[n] = FALSE,
                      !.peers[n] = NoPeer(NullAddr),
                      !.conns = [c \in ConnIds |->
                                   IF @[c].mode # "NONE" /\ NodeOf(w2, c) = n /\ @[c].peer
                                   THEN [@[c] EXCEPT !.stale = TRUE] ELSE @[c]]]
             olds == PendingFind(w3, n, p.addr)
             old == IF olds = {} THEN NullConn ELSE CHOOSE o \in olds : TRUE
             w4 == IF old # NullConn /\ ~w3.conns[old].peer
                   THEN disp_terminate(w3, old) ELSE w3
         IN  PendingErase(w4, n, p.addr)

\* a message of the user's own opcode
UserMsg == [op |-> "User", claimed_addr |-> NullAddr, nonce |-> 0]

\* MsgNetwork::_send_msg -> Conn::write on connection c.  The worker of a live,
\* installed connection keeps its send queue empty; the queue of any other
\* connection only grows, up to queue_capacity when that is not 0.
conn_write(w, c, m, capacity) ==
    IF Alive(w, c) /\ w.conns[c].setup
    THEN [ok |-> TRUE, w |-> send_msg(w, m, c)]
    ELSE LET r == write(w.sbuf[c], m, capacity)
         IN  [ok |-> r.ok, w |-> [w EXCEPT !.sbuf[c] = r.q]]

\* PeerNetwork::_send_msg_deferred, the task on the dispatcher.  _get_peer_conn
\* returns Peer::conn, null for a peer that never finished a handshake, and
\* _send_msg calls write on it: out is the outcome of the null dereference.
send_msg_deferred(w, n, pid, id, capacity, out) ==
    IF ~PeerKnown(w, n, pid) THEN recoverable_error(w, id, "PEER_NOT_EXIST")
    ELSE LET c == w.peers[n].conn
         IN  IF c = NullConn THEN (IF out = "crash" THEN crash(w) ELSE w)
             ELSE LET r == conn_write(w, c, UserMsg, capacity)
                  IN  IF r.ok THEN r.w
                      ELSE recoverable_error(r.w, id, "CONN_NOT_READY")

\* the loop of PeerNetwork::_multicast_msg: succ &= _send_msg(msg,
\* _get_peer_conn(pid)); _get_peer_conn throws at the first missing peer
RECURSIVE multicast_loop(_, _, _, _, _)
multicast_loop(w, n, pids, capacity, out) ==
    IF pids = <<>> THEN [w |-> w, succ |-> TRUE, thrown |-> "none"]
    ELSE IF ~PeerKnown(w, n, Head(pids))
    THEN [w |-> w, succ |-> FALSE, thrown |-> "PEER_NOT_EXIST"]
    ELSE LET c == w.peers[n].conn
         IN  IF c = NullConn /\ out = "crash"
             THEN [w |-> crash(w), succ |-> FALSE, thrown |-> "crash"]
             ELSE LET r == IF c = NullConn THEN [ok |-> TRUE, w |-> w]
                           ELSE conn_write(w, c, UserMsg, capacity)
                      rest == multicast_loop(r.w, n, Tail(pids), capacity, out)
                  IN  [rest EXCEPT !.succ = r.ok /\ @]

\* PeerNetwork::_multicast_msg, the task on the dispatcher
multicast_msg(w, n, pids, id, capacity, out) ==
    LET r == multicast_loop(w, n, pids, capacity, out)
    IN  IF r.thrown = "crash" THEN r.w
        ELSE IF r.thrown # "none" THEN recoverable_error(r.w, id, r.thrown)
        ELSE IF ~r.succ THEN recoverable_error(r.w, id, "CONN_NOT_READY")
        ELSE r.w

\* the recipients the user may list
PidLists == {<<2>>, <<2, Stranger>>, <<Stranger, 2>>}

InitRegistry ==
    /\ conns = [c \in ConnIds |-> NoConn]
    /\ known_peers \in {f \in [Nodes -> BOOLEAN] : f[1]}
    /\ peers \in {f \in [Nodes -> {NoPeer(a) : a \in {NullAddr, 1, 2, Stranger}}] :
                    /\ f[1].addr = 2
                    /\ f[2].addr \in {NullAddr, 1, Stranger}
                    /\ ~known_peers[2] => f[2].addr = NullAddr}
    /\ pending_peers = [n \in Nodes |-> {}]
    /\ wire = [c \in ConnIds |-> <<>>]
    /\ send_buffer = [c \in ConnIds |-> <<>>]
    /\ nlinks = 0
    /\ dialer = [l \in Links |-> 0]
    /\ peer_up = [c \in ConnIds |-> 0]
    /\ peer_down = [c \in ConnIds |-> 0]
    /\ used = [conn_peer |-> 0, event |-> 0]
    /\ sent_nonce = [n \in Nodes |-> 0]
    /\ ev_timeout = [c \in ConnIds |-> Unarmed]
    /\ unknown_cb = [n \in Nodes |-> 0]
    /\ errors = <<>>
    /\ InitMsg
    /\ silent = [n \in Nodes |-> FALSE]
    /\ asked = [n \in Nodes |-> NotAsked]
    /\ queue_capacity \in {0, 1}
    /\ submitted = <<>>
    /\ calls = 0
    /\ InitCli

\* the user's call takes the next async-id
Called ==
    /\ ~Crashed
    /\ calls < MaxCalls
    /\ calls' = gen_async_id
    /\ UNCHANGED <<used, sent_nonce, msg_vars, silent, asked, queue_capacity, submitted,
                   cli_vars>>

AddPeer ==
    /\ Called
    /\ \E r \in 0..MaxNonce : Commit(add_peer(World, 1, gen_async_id, r))

ConnPeerCall ==
    /\ Called
    /\ (known_peers[1] /\ peers[1].addr # NullAddr
            /\ (peers[1].conn = NullConn \/ peers[1].state = "DISCONNECTED"))
        => nlinks < MaxRegDials
    /\ Commit(conn_peer_deferred(World, 1, -1, gen_async_id))

SetPeerAddr ==
    /\ Called
    /\ peers[1].addr = NullAddr
    /\ Commit(set_peer_addr(World, 1, 2, gen_async_id))

DelPeer ==
    /\ Called
    /\ Commit(del_peer(World, 1, gen_async_id))

SendDeferred ==
    /\ Called
    /\ \E out \in {"crash", "lost"} :
        Commit(send_msg_deferred(World, 1, 2, gen_async_id, queue_capacity, out))

Multicast ==
    \E pids \in PidLists :
        /\ Called
        /\ \E out \in {"crash", "lost"} :
            Commit(multicast_msg(World, 1, pids, gen_async_id, queue_capacity, out))

\* on_setup of an ACTIVE connection whose peer has been deleted meanwhile:
\* known_peers.find(pid) is end() and is dereferenced; out is the outcome, a
\* crash (0) or a Ping with whatever nonce is read
on_setup_unregistered(w, n, c, out) ==
    LET w0 == [w EXCEPT !.conns[c].setup = TRUE, !.tmo[c] = conn_timeout]
        w1 == replace_pending_conn(w0, n, c)
    IN  IF out = 0 THEN crash(w1) ELSE send_msg(w1, MsgPing(n, out), c)

EstablishReg(c) ==
    /\ ~Crashed
    /\ IsActiveEnd(c)
    /\ conns[c].mode = "ACTIVE"
    /\ ~conns[c].setup
    /\ IF known_peers[NodeOf(World, c)] THEN Establish(c)
       ELSE /\ LET d == PeerEnd(c)
                   w == [World EXCEPT !.conns[d] = [NoConn EXCEPT !.mode = "PASSIVE"]]
                   w1 == on_setup(w, NodeOf(w, d), d, 0)
               IN  \E out \in {0} \cup Nonces :
                       Commit(on_setup_unregistered(w1, NodeOf(w1, c), c, out))
            /\ UNCHANGED <<used, sent_nonce, msg_vars, aux_vars>>

\* the connection's back-pointer refers to a destroyed Peer
Stale(c) == conns[c].peer /\ conns[c].stale

\* A message reaches its handler.  A user message is handed to the user; a
\* heartbeat Pong on a connection with a stale back-pointer writes pong_msg_ok
\* through it.
DeliverReg(c) ==
    /\ ~Crashed
    /\ conns[c].setup
    /\ wire[c] # <<>>
    /\ LET m == Head(wire[c])
           w == [World EXCEPT !.wire[c] = Tail(@)]
           n == NodeOf(w, c)
       IN  IF m.op = "User"
           THEN Commit(w) /\ UNCHANGED <<used, sent_nonce, msg_vars, aux_vars>>
           ELSE IF m.op = "Pong" /\ m.claimed_addr = NullAddr /\ Stale(c)
                   /\ ~is_terminated(w, c)
           THEN /\ \/ Commit(crash(w))
                   \/ Commit(w)
                   \/ known_peers[n] /\ Commit(pong_handler(w, n, m, c, 0))
                /\ UNCHANGED <<used, sent_nonce, msg_vars, aux_vars>>
           ELSE Deliver(c)

\* The dispatcher runs a finalizer; on_teardown reads and writes the Peer
\* through the connection's back-pointer.
DelConnReg(c) ==
    /\ ~Crashed
    /\ conns[c].fin > 0
    /\ IF Stale(c)
       THEN /\ LET n == NodeOf(World, c)
               IN  \/ Commit(crash(World))
                   \/ Commit(del_conn(ClearBackPointer(World, c), n, c))
                   \/ known_peers[n] /\ Commit(del_conn(World, n, c))
            /\ UNCHANGED <<used, sent_nonce, msg_vars, aux_vars>>
       ELSE DelConn(c)

\* the handshake message an end takes: a Ping on the accepting end, a Pong on
\* the dialing end
StrayOp(c) == IF IsActiveEnd(c) THEN "Pong" ELSE "Ping"

\* the remote end, or whoever reached the port, sends one more handshake
\* message, claiming its own or another address
Stray(c) ==
    /\ ~Crashed
    /\ used.event < MaxEvents
    /\ Alive(World, c) /\ conns[c].setup
    /\ \E a \in {Other(NodeOf(World, c)), Stranger} :
        wire' = [wire EXCEPT ![c] = Append(@, [op |-> StrayOp(c), claimed_addr |-> a,
                                               nonce |-> 1])]
    /\ used' = [used EXCEPT !.event = @ + 1]
    /\ UNCHANGED <<conns, peers, pending_peers, send_buffer, nlinks, dialer, peer_up,
                   peer_down, reg_vars, ev_timeout, sent_nonce, msg_vars, aux_vars>>

WorkerStopReg(c) == ~Crashed /\ WorkerStop(c)
PeerClosedReg(c) == ~Crashed /\ PeerClosed(c)

NextReg ==
    \/ AddPeer
    \/ ConnPeerCall
    \/ SetPeerAddr
    \/ DelPeer
    \/ SendDeferred
    \/ Multicast
    \/ \E c \in ConnIds : EstablishReg(c)
    \/ \E c \in ConnIds : DeliverReg(c)
    \/ \E c \in ConnIds : Stray(c)
    \/ \E c \in ConnIds : PeerClosedReg(c)
    \/ \E c \in ConnIds : WorkerStopReg(c)
    \/ \E c \in ConnIds : DelConnReg(c)

SpecReg == InitRegistry /\ [][NextReg]_vars

\* ------------------------------------------------------------ address scenario
\* The registry scenario without sends and stray messages; the user may also
\* change the peer's address once the dial has been made.
\* pong_handler is about to run for the head of c's inbound queue and its
\* assert(!p->addr.is_null() && p->addr == conn->get_addr()) is false
PongAssertFails(c) ==
    LET n == NodeOf(World, c)
        m == Head(wire[c])
    IN  /\ conns[c].setup /\ wire[c] # <<>>
        /\ ~is_terminated(World, c)
        /\ m.op = "Pong" /\ m.claimed_addr # NullAddr
        /\ conns[c].mode = "ACTIVE"
        /\ PeerKnown(World, n, get_peer_id(c, get_addr(World, c)))
        /\ peers[n].addr = NullAddr \/ peers[n].addr # get_addr(World, c)

SetPeerAddrAny ==
    /\ Called
    /\ \E a \in {2, Stranger} :
        /\ a # peers[1].addr
        /\ a = Stranger => nlinks >= MaxRegDials
        /\ Commit(set_peer_addr(World, 1, a, gen_async_id))

\* a message reaches its handler; a failing assert aborts the process in a
\* build with asserts and is skipped in one without
DeliverAddr(c) ==
    \/ DeliverReg(c)
    \/ /\ ~Crashed
       /\ PongAssertFails(c)
       /\ Commit(assert_abort([World EXCEPT !.wire[c] = Tail(@)]))
       /\ UNCHANGED <<used, sent_nonce, msg_vars, aux_vars>>

NextAddr ==
    \/ AddPeer
    \/ ConnPeerCall
    \/ SetPeerAddrAny
    \/ DelPeer
    \/ \E c \in ConnIds : EstablishReg(c)
    \/ \E c \in ConnIds : DeliverAddr(c)
    \/ \E c \in ConnIds : PeerClosedReg(c)
    \/ \E c \in ConnIds : WorkerStopReg(c)
    \/ \E c \in ConnIds : DelConnReg(c)

SpecAddr == InitRegistry /\ [][NextAddr]_vars

\* ------------------------------------------------------------ move scenario
\* Node 1's peer between two connections: the chosen connection OldConn was
\* terminated (an I/O error, or conn_peer on the CONNECTED peer) and torn down,
\* node 1 dialed NewConn and sent the handshake Ping, and node 2 has chosen the
\* new inbound connection and answered.  Until the Pong is handled Peer::conn
\* is still OldConn, and the user's sends queue up on it.
MaxMoveSends == 3
OldConn == 1
NewConn == 3

\* the message of the deferred send with async-id id
Chunk(id) == [UserMsg EXCEPT !.nonce = id]

IsUser(m) == m.op = "User"

\* the worker of connection c writes the first chunk of the send queue to the
\* socket
worker_send(w, c) ==
    [w EXCEPT !.wire[PeerEnd(c)] = Append(@, Head(w.sbuf[c])), !.sbuf[c] = Tail(@)]

RECURSIVE worker_flush(_, _)
worker_flush(w, c) == IF w.sbuf[c] = <<>> THEN w ELSE worker_flush(worker_send(w, c), c)

\* Conn::write on connection c with the send queue as it is; drained: the
\* worker of a live connection empties the queue before the caller goes on
write_chunk(w, c, m, capacity, drained) ==
    LET r == write(w.sbuf[c], m, capacity)
        w1 == [w EXCEPT !.sbuf[c] = r.q]
    IN  [ok |-> r.ok,
         w |-> IF drained /\ Alive(w, c) /\ w.conns[c].setup THEN worker_flush(w1, c)
               ELSE w1]

\* the loop of finish_handshake: move_pop from the old queue until it gives an
\* empty chunk, write each chunk to the new connection; the result of write
\* is not looked at (a queued chunk is a serialized message, never empty)
RECURSIVE move_pop_loop(_, _, _, _, _)
move_pop_loop(w, old, new, capacity, drained) ==
    IF w.sbuf[old] = <<>> THEN w
    ELSE LET buff_seg == Head(w.sbuf[old])
             w1 == [w EXCEPT !.sbuf[old] = Tail(@)]
         IN  move_pop_loop(write_chunk(w1, new, buff_seg, capacity, drained).w,
                           old, new, capacity, drained)

\* Peer::send_ping with the send queue as it is
send_ping_queued(w, n, capacity, drained) ==
    LET w1 == [w EXCEPT !.peers[n].ping_timer_ok = FALSE,
                        !.peers[n].pong_msg_ok = FALSE]
        w2 == tcall_reset_timeout(w1, w1.peers[n].chosen_conn, conn_timeout)
    IN  write_chunk(w2, w2.peers[n].chosen_conn, MsgPing(NullAddr, 0), capacity, drained).w

\* PeerNetwork::finish_handshake with the send queues as they are
finish_handshake_queued(w, n, capacity, drained) ==
    LET p == w.peers[n]
        chosen == p.chosen_conn
        w1 == [w EXCEPT !.peers[n].ev_ping_timer = FALSE]
        w2 == IF p.inbound_conn # NullConn /\ p.inbound_conn # chosen
              THEN ClearBackPointer(w1, p.inbound_conn) ELSE w1
        w3 == IF p.outbound_conn # NullConn /\ p.outbound_conn # chosen
              THEN ClearBackPointer(w2, p.outbound_conn) ELSE w2
        w4 == [w3 EXCEPT !.peers[n].state = "CONNECTED"]
        w5 == send_ping_queued(reset_ping_timer(w4, n), n, capacity, drained)
        w6 == [w5 EXCEPT !.peers[n].ev_retry_timer = FALSE]
        w7 == IF p.conn # NullConn
              THEN ClearBackPointer(move_pop_loop(w6, p.conn, chosen, capacity, drained),
                                    p.conn)
              ELSE w6
        w8 == [w7 EXCEPT !.peers[n].conn = chosen, !.conns[chosen].peer = TRUE,
                         !.conns[chosen].stale = FALSE, !.up[chosen] = @ + 1]
    IN  PendingErase(w8, n, get_addr(w8, chosen))

\* pong_handler on the handshake Pong of a registered, DISCONNECTED peer whose
\* nonce is below the one received
pong_handler_queued(w, n, m, c, capacity, drained) ==
    LET old_conn == w.peers[n].outbound_conn
        w1 == IF old_conn # NullConn /\ old_conn # c
              THEN disp_terminate(w, old_conn) ELSE w
        w2 == [w1 EXCEPT !.peers[n].outbound_conn = c, !.peers[n].chosen_conn = c]
    IN  finish_handshake_queued(reset_ping_timer(w2, n), n, capacity, drained)

InitMove ==
    /\ conns = [c \in ConnIds |->
                  IF c = OldConn
                  THEN [NoConn EXCEPT !.mode = "DEAD", !.setup = TRUE, !.peer = TRUE,
                                      !.torn = 1]
                  ELSE IF c = PeerEnd(OldConn)
                  THEN [NoConn EXCEPT !.mode = "DEAD", !.setup = TRUE, !.torn = 1]
                  ELSE IF c = NewConn
                  THEN [NoConn EXCEPT !.mode = "ACTIVE", !.setup = TRUE]
                  ELSE IF c = PeerEnd(NewConn)
                  THEN [NoConn EXCEPT !.mode = "PASSIVE", !.setup = TRUE, !.peer = TRUE]
                  ELSE NoConn]
    /\ peers = [n \in Nodes |->
                  IF n = 1
                  THEN [NoPeer(2) EXCEPT !.conn = OldConn, !.chosen_conn = OldConn,
                                         !.outbound_conn = NewConn, !.nonce = 1,
                                         !.ntry = -1, !.ev_retry_timer = TRUE]
                  ELSE [NoPeer(NullAddr) EXCEPT
                            !.nonce = 1, !.conn = PeerEnd(NewConn), !.chosen_conn = PeerEnd(NewConn),
                            !.inbound_conn = PeerEnd(NewConn), !.state = "CONNECTED",
                            !.ev_ping_timer = TRUE]]
    /\ pending_peers = [n \in Nodes |-> IF n = 1 THEN {NewConn} ELSE {}]
    /\ wire = [c \in ConnIds |->
                 IF c = NewConn THEN <<MsgPong(2, passive_nonce), MsgPing(NullAddr, 0)>>
                 ELSE <<>>]
    /\ send_buffer = [c \in ConnIds |-> <<>>]
    /\ nlinks = 2
    /\ dialer = [l \in Links |-> IF l <= 2 THEN 1 ELSE 0]
    /\ peer_up = [c \in ConnIds |->
                    IF c \in {OldConn, PeerEnd(OldConn), PeerEnd(NewConn)} THEN 1 ELSE 0]
    /\ peer_down = [c \in ConnIds |-> IF c \in {OldConn, PeerEnd(OldConn)} THEN 1 ELSE 0]
    /\ used = [conn_peer |-> 0, event |-> 0]
    /\ sent_nonce = [n \in Nodes |-> 0]
    /\ ev_timeout = [c \in ConnIds |->
                       IF c \in {NewConn, PeerEnd(NewConn)} THEN conn_timeout ELSE Unarmed]
    /\ InitReg
    /\ InitMsg
    /\ silent = [n \in Nodes |-> FALSE]
    /\ asked = [n \in Nodes |-> NotAsked]
    /\ queue_capacity \in 0..MaxCapacity
    /\ submitted = <<>>
    /\ calls = 0
    /\ InitCli

\* the user calls send_msg_deferred(msg, pid) for the peer
MoveSend ==
    /\ calls < MaxMoveSends
    /\ calls' = gen_async_id
    /\ \E drained \in BOOLEAN :
        LET r == write_chunk(World, peers[1].conn, Chunk(gen_async_id), queue_capacity,
                             drained)
        IN  Commit(IF r.ok THEN r.w
                   ELSE recoverable_error(r.w, gen_async_id, "CONN_NOT_READY"))
    /\ UNCHANGED <<used, sent_nonce, msg_vars, silent, asked, queue_capacity, submitted,
                   cli_vars>>

\* the handshake Pong reaches pong_handler: NewConn is chosen
MoveChosen ==
    /\ peers[1].state = "DISCONNECTED"
    /\ wire[NewConn] # <<>>
    /\ LET m == Head(wire[NewConn])
           w == [World EXCEPT !.wire[NewConn] = Tail(@)]
       IN  \E drained \in BOOLEAN :
               Commit(pong_handler_queued(w, 1, m, NewConn, queue_capacity, drained))
    /\ UNCHANGED <<used, sent_nonce, msg_vars, aux_vars>>

\* the worker of the chosen connection finds its socket writable
MoveWorkerSend ==
    /\ Alive(World, NewConn)
    /\ send_buffer[NewConn] # <<>>
    /\ Commit(worker_send(World, NewConn))
    /\ UNCHANGED <<used, sent_nonce, msg_vars, aux_vars>>

\* node 2 takes a message
MoveReceive ==
    /\ wire[PeerEnd(NewConn)] # <<>>
    /\ wire' = [wire EXCEPT ![PeerEnd(NewConn)] = Tail(@)]
    /\ UNCHANGED <<conns, peers, pending_peers, send_buffer, nlinks, dialer, peer_up,
                   peer_down, reg_vars, ev_timeout, used, sent_nonce, msg_vars, aux_vars>>

NextMove ==
    \/ MoveSend
    \/ MoveChosen
    \/ MoveWorkerSend
    \/ MoveReceive

SpecMove == InitMove /\ [][NextMove]_vars

\* ------------------------------------------------------------ client scenario
\* A ClientNetwork accepts connections, the even connection ids, from clients
\* at the addresses ClientAddrs.  A client that has closed or reset its
\* connection may connect again from the same address while the teardown of the
\* earlier connection is still on its way to the dispatcher.
ClientConns == {c \in ConnIds : ~IsActiveEnd(c)}

\* ClientNetwork::on_setup: addr2conn.erase(addr); addr2conn.insert({addr, conn})
client_on_setup(map, addr, c) == [map EXCEPT ![addr] = c]

\* ClientNetwork::on_teardown: addr2conn.erase(conn->get_addr())
client_on_teardown(map, addr) == [map EXCEPT ![addr] = NullConn]

\* ClientNetwork::_send_msg_deferred, the task on the dispatcher; the result of
\* the write is not looked at
client_send_msg_deferred(w, map, addr, id, capacity) ==
    IF map[addr] = NullConn THEN recoverable_error(w, id, "CLIENT_NOT_EXIST")
    ELSE conn_write(w, map[addr], UserMsg, capacity).w

InitClient ==
    /\ conns = [c \in ConnIds |-> NoConn]
    /\ peers = [n \in Nodes |-> NoPeer(NullAddr)]
    /\ pending_peers = [n \in Nodes |-> {}]
    /\ wire = [c \in ConnIds |-> <<>>]
    /\ send_buffer = [c \in ConnIds |-> <<>>]
    /\ nlinks = 0
    /\ dialer = [l \in Links |-> 0]
    /\ peer_up = [c \in ConnIds |-> 0]
    /\ peer_down = [c \in ConnIds |-> 0]
    /\ used = [conn_peer |-> 0, event |-> 0]
    /\ sent_nonce = [n \in Nodes |-> 0]
    /\ ev_timeout = [c \in ConnIds |-> Unarmed]
    /\ InitReg
    /\ InitMsg
    /\ silent = [n \in Nodes |-> FALSE]
    /\ asked = [n \in Nodes |-> NotAsked]
    /\ queue_capacity \in {0, 1}
    /\ submitted = <<>>
    /\ calls = 0
    /\ InitCli

\* accept_client, then the connection is installed and on_setup runs
ClientAccept(c, a) ==
    /\ conns[c].mode = "NONE"
    /\ \A d \in ClientConns : d < c => conns[d].mode # "NONE"
    /\ conns' = [conns EXCEPT ![c] = [NoConn EXCEPT !.mode = "PASSIVE", !.setup = TRUE]]
    /\ remote_addr' = [remote_addr EXCEPT ![c] = a]
    /\ addr2conn' = client_on_setup(addr2conn, a, c)
    /\ UNCHANGED <<peers, pending_peers, wire, send_buffer, nlinks, dialer, peer_up,
                   peer_down, reg_vars, ev_timeout, used, sent_nonce, msg_vars,
                   silent, asked, queue_capacity, submitted, calls, pool_vars>>

\* the worker meets the closed socket or an I/O error and stops the connection
ClientClosed(c) ==
    /\ Alive(World, c)
    /\ Commit(worker_terminate(World, c))
    /\ UNCHANGED <<used, sent_nonce, msg_vars, aux_vars>>

\* the dispatcher runs the finalizer: ConnPool::del_conn, then on_teardown
ClientDelConn(c) ==
    /\ conns[c].fin > 0
    /\ conns' = [conns EXCEPT ![c].fin = @ - 1, ![c].torn = @ + 1]
    /\ addr2conn' = client_on_teardown(addr2conn, remote_addr[c])
    /\ UNCHANGED <<peers, pending_peers, wire, send_buffer, nlinks, dialer, peer_up,
                   peer_down, reg_vars, ev_timeout, used, sent_nonce, msg_vars,
                   silent, asked, queue_capacity, submitted, calls, remote_addr,
                   pool_vars>>

\* the user calls send_msg_deferred(msg, addr)
ClientSend(a) ==
    /\ calls < MaxCalls
    /\ calls' = gen_async_id
    /\ Commit(client_send_msg_deferred(World, addr2conn, a, gen_async_id, queue_capacity))
    /\ UNCHANGED <<used, sent_nonce, msg_vars, silent, asked, queue_capacity, submitted,
                   cli_vars>>

NextClient ==
    \/ \E c \in ClientConns, a \in ClientAddrs : ClientAccept(c, a)
    \/ \E c \in ClientConns : ClientClosed(c)
    \/ \E c \in ClientConns : ClientDelConn(c)
    \/ \E a \in ClientAddrs : ClientSend(a)

SpecClient == InitClient /\ [][NextClient]_vars

\* ------------------------------------------------------------ worker scenario
\* The dispatcher hands new connections to the workers of a pool: it selects a
\* worker and posts the feed task, which counts the connection in; a stopped
\* connection is counted out.
\* the loop of select_worker with t <= best as its test
RECURSIVE select_loop_last(_, _, _, _, _)
select_loop_last(n, nw, i, idx, best) ==
    IF i >= nw THEN idx
    ELSE IF n[i] <= best THEN select_loop_last(n, nw, i + 1, i, n[i])
    ELSE select_loop_last(n, nw, i + 1, idx, best)

\* the loop of ConnPool::select_worker from index i on
RECURSIVE select_loop(_, _, _, _, _)
select_loop(n, nw, i, idx, best) ==
    IF i >= nw THEN idx
    ELSE IF n[i] < best THEN select_loop(n, nw, i + 1, i, n[i])
    ELSE select_loop(n, nw, i + 1, idx, best)

\* ConnPool::select_worker with ties resolved towards the last worker
select_worker_last(n, nw) == select_loop_last(n, nw, 0, 0, n[0])

\* ConnPool::select_worker
select_worker(n, nw) == select_loop(n, nw, 0, 0, n[0])

\* everything outside the pool's workers is idle
InitIdle ==
    /\ peers = [n \in Nodes |-> NoPeer(NullAddr)]
    /\ pending_peers = [n \in Nodes |-> {}]
    /\ wire = [c \in ConnIds |-> <<>>]
    /\ send_buffer = [c \in ConnIds |-> <<>>]
    /\ nlinks = 0
    /\ dialer = [l \in Links |-> 0]
    /\ peer_up = [c \in ConnIds |-> 0]
    /\ peer_down = [c \in ConnIds |-> 0]
    /\ used = [conn_peer |-> 0, event |-> 0]
    /\ sent_nonce = [n \in Nodes |-> 0]
    /\ ev_timeout = [c \in ConnIds |-> Unarmed]
    /\ InitReg
    /\ InitMsg
    /\ silent = [n \in Nodes |-> FALSE]
    /\ asked = [n \in Nodes |-> NotAsked]
    /\ submitted = <<>>
    /\ calls = 0
    /\ addr2conn = [a \in ClientAddrs |-> NullConn]
    /\ remote_addr = [c \in ConnIds |-> NullAddr]
    /\ written = <<>>
    /\ race = NoRace

InitSelect ==
    /\ InitIdle
    /\ conns = [c \in ConnIds |-> NoConn]
    /\ queue_capacity = 0
    /\ io = NoIo
    /\ nworker \in 1..MaxWorkers
    /\ nconn = [i \in Workers |-> 0]
    /\ selected = NoWorker

idle_vars == <<conns, peers, pending_peers, wire, send_buffer, nlinks, dialer, peer_up,
               peer_down, reg_vars, ev_timeout, used, sent_nonce, msg_vars, silent,
               asked, queue_capacity, submitted, calls, addr2conn, remote_addr,
               written, io, race>>

\* the dispatcher selects the worker for a new connection
SelectWorker ==
    /\ selected = NoWorker
    /\ selected' = select_worker(nconn, nworker)
    /\ UNCHANGED <<nworker, nconn, idle_vars>>

\* the selected worker runs the feed task of the connection
FeedTask ==
    /\ selected # NoWorker
    /\ nconn[selected] < MaxNconn
    /\ nconn' = [nconn EXCEPT ![selected] = @ + 1]
    /\ selected' = NoWorker
    /\ UNCHANGED <<nworker, idle_vars>>

\* Worker::unfeed: a connection of worker i is stopped
Unfeed(i) ==
    /\ i < nworker
    /\ nconn[i] > 0
    /\ nconn' = [nconn EXCEPT ![i] = @ - 1]
    /\ selected' = NoWorker
    /\ UNCHANGED <<nworker, idle_vars>>

NextSelect ==
    \/ SelectWorker
    \/ FeedTask
    \/ \E i \in Workers : Unfeed(i)

SpecSelect == InitSelect /\ [][NextSelect]_vars

\* ------------------------------------------------------------ byte stream
\* The receiving side of RC with the header as bytes: opcode, length and
\* checksum, then padding up to header_size.  The remote end writes well-formed
\* frames; the worker reads the stream in chunks of any size.
header_size == 3
MaxChunkLen == 2
MaxChunkFrames == 3

HeaderBytes(id, len, sum) ==
    [i \in 1..header_size |->
        IF i = 1 THEN id ELSE IF i = 2 THEN len ELSE IF i = 3 THEN sum ELSE 0]

\* Msg(recv_buffer.pop(header_size)): the header decoded from the bytes popped
MsgOf(b) ==
    [id |-> IF Len(b) >= 1 THEN b[1] ELSE 0,
     length |-> IF Len(b) >= 2 THEN b[2] ELSE 0,
     checksum |-> IF Len(b) >= 3 THEN b[3] ELSE 0,
     payload |-> <<>>]

\* the parse loop of MsgNetwork::on_read over bytes: need is the number of
\* bytes that make a header available, limit is max_msg_size and cap the
\* capacity of incoming_msgs
RECURSIVE on_read_bytes_loop(_, _, _, _)
on_read_bytes_loop(k, need, limit, cap) ==
    LET take == IF Len(k.recv_buffer) < header_size THEN Len(k.recv_buffer)
                ELSE header_size
        h == MsgOf(SubSeq(k.recv_buffer, 1, take))
        k1 == IF k.msg_state = "HEADER"
              THEN [k EXCEPT !.msg = h,
                             !.recv_buffer = SubSeq(@, take + 1, Len(@)),
                             !.msg_state = "PAYLOAD"]
              ELSE k
        len == k1.msg.length
        k2 == [k1 EXCEPT !.msg.payload = SubSeq(k1.recv_buffer, 1, len),
                         !.recv_buffer = SubSeq(@, len + 1, Len(@)),
                         !.msg_state = "HEADER"]
    IN  IF k.msg_state = "HEADER" /\ Len(k.recv_buffer) < need THEN k
        ELSE IF k.msg_state = "HEADER" /\ h.length > limit
        THEN [k EXCEPT !.msg = h, !.recv_buffer = SubSeq(@, take + 1, Len(@)),
                       !.thrown = "CONN_OVERSIZED_MSG"]
        ELSE IF Len(k1.recv_buffer) < len THEN k1
        ELSE IF ~verify_checksum(k2.msg) THEN k2
        ELSE IF Len(k2.incoming_msgs) >= cap
        THEN [k2 EXCEPT !.msg_sleep = TRUE, !.ev_enqueue_poll = TRUE]
        ELSE on_read_bytes_loop([k2 EXCEPT !.incoming_msgs = Append(@, k2.msg)],
                                need, limit, cap)

\* on_read that takes a header as soon as one byte is there
on_read_bytes_early(k, limit, cap) ==
    IF k.msg_sleep THEN k ELSE on_read_bytes_loop(k, 1, limit, cap)

\* MsgNetwork::on_read over bytes
on_read_bytes(k, limit, cap) ==
    IF k.msg_sleep THEN k ELSE on_read_bytes_loop(k, header_size, limit, cap)

\* the remote end writes one well-formed frame
WriteFrame ==
    /\ nframes < MaxChunkFrames
    /\ \E len \in 0..MaxChunkLen :
        LET body == [i \in 1..len |-> len]
            sum == checksum_of(body)
            id == nframes + 1
        IN  /\ socket' = socket \o HeaderBytes(id, len, sum) \o body
            /\ written' = Append(written, [id |-> id, length |-> len,
                                           checksum |-> sum, payload |-> body])
    /\ nframes' = nframes + 1
    /\ UNCHANGED <<conns, peers, pending_peers, wire, send_buffer, nlinks, dialer,
                   peer_up, peer_down, reg_vars, ev_timeout, used, sent_nonce, recv_buffer,
                   msg, msg_state, msg_sleep, ev_enqueue_poll, incoming_msgs, handled,
                   reported, silent, asked, queue_capacity, submitted, calls, addr2conn,
                   remote_addr, nworker, nconn, selected, io, race>>

\* the socket is readable: recv_data appends the n bytes it reads to the
\* receive buffer and calls on_read; the user does not take from incoming_msgs,
\* which is never full
ReadChunk ==
    /\ Alive(World, RC)
    /\ \E n \in 1..Len(socket) :
        /\ socket' = SubSeq(socket, n + 1, Len(socket))
        /\ CommitRx(on_read_bytes([Rx EXCEPT !.recv_buffer = @ \o SubSeq(socket, 1, n)],
                                  MaxChunkLen, MaxChunkFrames + 1))
    /\ UNCHANGED <<used, sent_nonce, nframes, handled, aux_vars>>

NextChunk ==
    \/ WriteFrame
    \/ ReadChunk

SpecChunk == InitCodec /\ [][NextChunk]_vars

\* ------------------------------------------------------------ worker installation
\* Connection SC from the moment the dispatcher hands it to a worker: the feed
\* task, producers that push chunks onto its send queue, the queue's handler
\* and send_data on the worker, and Conn::stop.  A chunk is its number.
MaxRoom == 1

feed_idle == <<peers, pending_peers, wire, nlinks, dialer, peer_up, peer_down, reg_vars,
               ev_timeout, used, sent_nonce, recv_buffer, msg, msg_state, msg_sleep,
               ev_enqueue_poll, incoming_msgs, handled, reported, silent, asked,
               queue_capacity, calls, addr2conn, remote_addr, nworker, written, race>>

\* the handler of the send queue that leaves the events as they are
queue_handler_no_rearm(i) == i

\* the handler Worker::feed registers on the send queue: with ready_send it
\* adds READ | WRITE again and calls send_data
queue_handler(i) ==
    IF i.ready_send THEN [i EXCEPT !.ev = {"READ", "WRITE"}, !.wpc = "send"] ELSE i

\* the task Worker::feed posts, run on a connection that is DEAD or not
feed(i, dead) ==
    IF dead THEN [i EXCEPT !.feed = "discarded"]
    ELSE [i EXCEPT !.feed = "installed", !.handler = TRUE, !.ev = {"READ", "WRITE"}]

InitFeed ==
    /\ InitIdle
    /\ conns = [c \in ConnIds |-> IF c = SC THEN [NoConn EXCEPT !.mode = "ACTIVE"]
                                  ELSE NoConn]
    /\ queue_capacity \in {0, 1}
    /\ nworker \in 1..2
    /\ nconn = [i \in Workers |-> 0]
    /\ selected = NoWorker
    /\ io = NoIo

\* the dispatcher selects a worker and posts the feed task
Hand ==
    /\ io.feed = "none"
    /\ selected' = select_worker(nconn, nworker)
    /\ io' = [io EXCEPT !.feed = "posted"]
    /\ UNCHANGED <<conns, send_buffer, socket, nframes, submitted, nconn, feed_idle>>

\* the worker runs the feed task
FeedRun ==
    /\ io.feed = "posted"
    /\ io.wpc = "idle"
    /\ io' = feed(io, is_terminated(World, SC))
    /\ nconn' = IF is_terminated(World, SC) THEN nconn
                ELSE [nconn EXCEPT ![selected] = @ + 1]
    /\ UNCHANGED <<conns, send_buffer, socket, nframes, submitted, selected, feed_idle>>

\* Conn::stop: the connection becomes DEAD, its events are cleared, the
\* handler of its send queue is unregistered and an installed connection is
\* counted out
StopConn ==
    /\ Alive(World, SC)
    /\ io.wpc = "idle"
    /\ conns' = worker_terminate(World, SC).conns
    /\ io' = [io EXCEPT !.ev = {}, !.handler = FALSE]
    /\ nconn' = IF io.feed = "installed" THEN [nconn EXCEPT ![selected] = @ - 1]
                ELSE nconn
    /\ UNCHANGED <<send_buffer, socket, nframes, submitted, selected, feed_idle>>

\* a producer calls Conn::write: the chunk is put on the queue
PushEnqueue ==
    /\ io.prod = "idle"
    /\ Len(submitted) < MaxSends
    /\ LET id == Len(submitted) + 1
           r == write(send_buffer[SC], id, queue_capacity)
       IN  /\ send_buffer' = [send_buffer EXCEPT ![SC] = r.q]
           /\ submitted' = Append(submitted,
                  [id |-> id, ok |-> r.ok, dead |-> is_terminated(World, SC),
                   ready |-> io.ready_send /\ io.wpc = "idle"])
           /\ io' = [io EXCEPT !.prod = IF r.ok THEN "enq" ELSE "idle"]
    /\ UNCHANGED <<conns, socket, nframes, nconn, selected, feed_idle>>

\* the producer, after the chunk is on the queue, notifies the consumer if the
\* queue's flag asks for it
PushSignal ==
    /\ io.prod = "enq"
    /\ io' = [io EXCEPT !.prod = "idle", !.wait_sig = FALSE,
                        !.notified = @ \/ io.wait_sig]
    /\ UNCHANGED <<conns, send_buffer, socket, nframes, submitted, nconn, selected,
                   feed_idle>>

\* the worker's loop runs the queue's handler for a pending notification
QueueHandler ==
    /\ io.handler /\ io.notified
    /\ io.wpc = "idle"
    /\ io' = queue_handler([io EXCEPT !.notified = FALSE, !.wait_sig = TRUE])
    /\ UNCHANGED <<conns, send_buffer, socket, nframes, submitted, nconn, selected,
                   feed_idle>>

\* the socket is writable and WRITE is armed: the worker calls send_data
SocketWritable ==
    /\ "WRITE" \in io.ev
    /\ io.room > 0
    /\ io.wpc = "idle"
    /\ io' = [io EXCEPT !.wpc = "send"]
    /\ UNCHANGED <<conns, send_buffer, socket, nframes, submitted, nconn, selected,
                   feed_idle>>

\* one round of the loop of send_data: the queue is seen empty, or the chunk at
\* its head is written, or the socket takes nothing and the chunk is put back
SendDataStep ==
    /\ io.wpc = "send"
    /\ IF send_buffer[SC] = <<>>
       THEN /\ io' = [io EXCEPT !.wpc = "empty"]
            /\ UNCHANGED <<send_buffer, socket, nframes>>
       ELSE IF io.room > 0
       THEN /\ socket' = Append(socket, Head(send_buffer[SC]))
            /\ nframes' = nframes + 1
            /\ send_buffer' = [send_buffer EXCEPT ![SC] = Tail(@)]
            /\ io' = [io EXCEPT !.room = @ - 1]
       ELSE /\ io' = [io EXCEPT !.ready_send = FALSE, !.wpc = "idle"]
            /\ UNCHANGED <<send_buffer, socket, nframes>>
    /\ UNCHANGED <<conns, submitted, nconn, selected, feed_idle>>

\* send_data after it has seen the queue empty: only READ stays armed
SendDataDone ==
    /\ io.wpc = "empty"
    /\ io' = [io EXCEPT !.ev = {"READ"}, !.ready_send = TRUE, !.wpc = "idle"]
    /\ UNCHANGED <<conns, send_buffer, socket, nframes, submitted, nconn, selected,
                   feed_idle>>

\* the remote end reads: the socket can take a chunk again
PeerReads ==
    /\ io.room < MaxRoom
    /\ io' = [io EXCEPT !.room = @ + 1]
    /\ UNCHANGED <<conns, send_buffer, socket, nframes, submitted, nconn, selected,
                   feed_idle>>

NextFeed ==
    \/ Hand
    \/ FeedRun
    \/ StopConn
    \/ PushEnqueue
    \/ PushSignal
    \/ QueueHandler
    \/ SocketWritable
    \/ SendDataStep
    \/ SendDataDone
    \/ PeerReads

SpecFeed == InitFeed /\ [][NextFeed]_vars

\* The dispatcher and the worker run the tasks posted to them, a producer
\* finishes its push, an armed event whose condition holds fires, and the
\* remote end keeps reading.
SpecFeedFair ==
    /\ SpecFeed
    /\ WF_vars(Hand)
    /\ WF_vars(FeedRun)
    /\ WF_vars(PushSignal)
    /\ WF_vars(QueueHandler)
    /\ WF_vars(SocketWritable)
    /\ WF_vars(SendDataStep)
    /\ WF_vars(SendDataDone)
    /\ WF_vars(PeerReads)

\* ------------------------------------------------------------ peer lock
\* The user thread calls send_msg(msg, pid) for the peer node 1 keeps while the
\* dispatcher runs tasks on that Peer.  known_peers_lock is a shared mutex:
\* shared holders exclude a unique holder only.
MaxRaceSends == 2
TornRead == 2 * MaxDials + 1

\* the lock each dispatcher task takes on known_peers_lock
LockOf(op) ==
    CASE op \in {"ping_handler", "pong_handler", "conn_peer"} -> "shared"
      [] op \in {"add_peer", "del_peer"} -> "unique"
      [] OTHER -> "none"

\* the tasks that write Peer::conn or Peer::state of an entry of known_peers
PeerWriters == {"ping_handler", "pong_handler", "conn_peer", "on_teardown"}
RaceOps == PeerWriters \cup {"add_peer", "del_peer"}

\* what the task writes: finish_handshake sets state and conn, conn_peer resets
\* an established peer, on_teardown of the peer's connection disconnects it
\* (Peer::conn keeps the dead connection), del_peer and add_peer change the map
PeerWrite(op, p) ==
    CASE op \in {"ping_handler", "pong_handler"} ->
            IF p.state = "DISCONNECTED"
            THEN [p EXCEPT !.state = "CONNECTED",
                           !.conn = IF p.conn = OldConn THEN NewConn ELSE OldConn]
            ELSE p
      [] op = "conn_peer" ->
            IF p.conn # NullConn /\ p.state = "CONNECTED"
            THEN [p EXCEPT !.state = "RESET"] ELSE p
      [] op = "on_teardown" ->
            IF p.conn # NullConn THEN [p EXCEPT !.state = "DISCONNECTED"] ELSE p
      [] op = "del_peer" -> NoPeer(NullAddr)
      [] OTHER -> p

\* the user thread holds the shared lock
UserHolds == race.user \in {"locked", "reading"}

race_idle == <<conns, pending_peers, wire, send_buffer, nlinks, dialer, peer_up,
               peer_down, unknown_cb, errors, ev_timeout, used, sent_nonce, msg_vars,
               silent, asked, queue_capacity, submitted, calls, addr2conn, remote_addr,
               nworker, nconn, selected, written, io>>

InitRace ==
    /\ InitIdle
    /\ conns = [c \in ConnIds |-> NoConn]
    /\ queue_capacity = 0
    /\ nworker = 1
    /\ nconn = [i \in Workers |-> 0]
    /\ selected = NoWorker
    /\ io = NoIo

\* _send_msg takes the shared lock; the dispatcher holds the unique lock only
\* inside add_peer and del_peer
UserLock ==
    /\ race.user = "idle"
    /\ race.sends < MaxRaceSends
    /\ ~(race.disp # "idle" /\ LockOf(race.op) = "unique")
    /\ race' = [race EXCEPT !.user = "locked", !.sends = @ + 1, !.raced = FALSE]
    /\ UNCHANGED <<peers, known_peers, race_idle>>

\* _get_peer_conn: known_peers.find(pid); PEER_NOT_EXIST is thrown for an
\* unknown peer and the lock is released
UserFind ==
    /\ race.user = "locked"
    /\ race' = [race EXCEPT !.user = IF known_peers[1] THEN "reading" ELSE "idle"]
    /\ UNCHANGED <<peers, known_peers, race_idle>>

\* the copy of Peer::conn is complete and the lock is released; a copy that a
\* write of the dispatcher ran into may be anything
UserRead ==
    /\ race.user = "reading"
    /\ \E v \in {peers[1].conn} \cup (IF race.raced THEN {TornRead} ELSE {}) :
        race' = [race EXCEPT !.user = "idle", !.got = v]
    /\ UNCHANGED <<peers, known_peers, race_idle>>

\* the task gets as far as its writes to the Peer: a handshake message is
\* dropped unless the peer is DISCONNECTED, on_teardown returns early for a
\* connection that is not the peer's, conn_peer resets an established peer only
Writes(op, p) ==
    CASE op \in {"ping_handler", "pong_handler"} -> p.state = "DISCONNECTED"
      [] op = "conn_peer" -> p.conn # NullConn /\ p.state = "CONNECTED"
      [] op = "on_teardown" -> p.conn # NullConn /\ p.state # "DISCONNECTED"
      [] OTHER -> TRUE

\* the dispatcher starts a task and takes the lock the task takes
DispLock(op) ==
    /\ race.disp = "idle"
    /\ LockOf(op) = "unique" => ~UserHolds
    /\ op = "add_peer" => ~known_peers[1]
    /\ op # "add_peer" => known_peers[1]
    /\ Writes(op, peers[1])
    /\ race' = [race EXCEPT !.disp = "locked", !.op = op]
    /\ UNCHANGED <<peers, known_peers, race_idle>>

\* the task reaches its writes to the Peer
DispWriteBegin ==
    /\ race.disp = "locked"
    /\ race' = [race EXCEPT !.disp = "writing"]
    /\ UNCHANGED <<peers, known_peers, race_idle>>

\* the writes are done and the task ends, releasing its lock
DispWriteEnd ==
    /\ race.disp = "writing"
    /\ peers' = [peers EXCEPT ![1] = PeerWrite(race.op, @)]
    /\ known_peers' = [known_peers EXCEPT ![1] =
                          IF race.op = "del_peer" THEN FALSE
                          ELSE IF race.op = "add_peer" THEN TRUE ELSE @]
    /\ race' = [race EXCEPT !.disp = "idle", !.op = "none",
                            !.raced = @ \/ (race.user = "reading"
                                            /\ race.op \in PeerWriters)]
    /\ UNCHANGED race_idle

NextRace ==
    \/ UserLock
    \/ UserFind
    \/ UserRead
    \/ \E op \in RaceOps : DispLock(op)
    \/ DispWriteBegin
    \/ DispWriteEnd

SpecRace == InitRace /\ [][NextRace]_vars

\* ------------------------------------------------------------ claims
ConnsOf(n) == {c \in ConnIds : conns[c].mode # "NONE" /\ NodeOf(World, c) = n}
Connected(n) == peers[n].state = "CONNECTED"

\* C1: whenever both nodes are CONNECTED, their connections are the two ends of
\* one link (both sides elected the same winner)
C1_SameWinner ==
    (Connected(1) /\ Connected(2)) => peers[2].conn = PeerEnd(peers[1].conn)

\* C3: a CONNECTED peer has a chosen connection that is not DEAD and points back
C3_ChosenAlive ==
    \A n \in Nodes : Connected(n) =>
        /\ peers[n].chosen_conn # NullConn
        /\ conns[peers[n].chosen_conn].mode # "DEAD"
        /\ conns[peers[n].chosen_conn].peer

\* C3 amended: a CONNECTED peer has a chosen connection that points back, and
\* the connection is DEAD only while its finalizer is still pending
C3_ChosenAliveOrFinalizing ==
    \A n \in Nodes : Connected(n) =>
        /\ peers[n].chosen_conn # NullConn
        /\ peers[n].chosen_conn = peers[n].conn
        /\ conns[peers[n].chosen_conn].peer
        /\ conns[peers[n].chosen_conn].mode \in {"ACTIVE", "PASSIVE", "DEAD"}
        /\ conns[peers[n].chosen_conn].mode = "DEAD" =>
               /\ conns[peers[n].chosen_conn].fin = 1
               /\ conns[peers[n].chosen_conn].torn = 0

\* a CONNECTED peer whose chosen connection the worker has already made DEAD
C3_Witness ==
    \E n \in Nodes :
        /\ Connected(n)
        /\ conns[peers[n].chosen_conn].mode = "DEAD"
        /\ conns[peers[n].chosen_conn].fin = 1

\* C4: while CONNECTED at most one connection points back to the peer
C4_OneBackPointer ==
    \A n \in Nodes : Connected(n) =>
        Cardinality({c \in ConnsOf(n) : conns[c].peer}) <= 1

\* a peer CONNECTED again after an earlier elected connection was torn down
C4_Witness ==
    \E n \in Nodes : \E c \in ConnsOf(n) :
        /\ Connected(n)
        /\ c # peers[n].conn
        /\ peer_up[c] = 1 /\ peer_down[c] = 1
        /\ conns[peers[n].conn].peer

\* the finalizer of the peer-bound current connection c of node n runs in this step
TeardownOfCurrent(n, c) ==
    /\ NodeOf(World, c) = n
    /\ conns'[c].torn = conns[c].torn + 1
    /\ peers[n].conn = c
    /\ conns[c].peer
    /\ peers[n].state \in {"CONNECTED", "RESET"}

\* C6: the teardown of a CONNECTED or RESET peer's current connection posts
\* exactly one peer_cb(conn, false), leaves the peer DISCONNECTED with its
\* candidates cleared and nonce 0, and leaves the ping timer cancelled whether
\* or not the retry timer is armed
C6_TeardownOfCurrent ==
    /\ [](\A c \in ConnIds : peer_down[c] <= 1)
    /\ [][\A n \in Nodes : \A c \in ConnIds : TeardownOfCurrent(n, c) =>
            /\ peer_down'[c] = peer_down[c] + 1
            /\ peers'[n].state = "DISCONNECTED"
            /\ peers'[n].inbound_conn = NullConn
            /\ peers'[n].outbound_conn = NullConn
            /\ peers'[n].nonce = 0
            /\ ~peers'[n].ev_ping_timer]_vars

\* the current connection was torn down and the retry timer is armed
C6_Witness ==
    \E n \in Nodes :
        /\ peers[n].conn # NullConn
        /\ peer_down[peers[n].conn] = 1
        /\ peers[n].state = "DISCONNECTED"
        /\ peers[n].ev_retry_timer
        /\ ~peers[n].ev_ping_timer

Quiescent ==
    /\ \A c \in ConnIds :
        /\ conns[c].stop = 0
        /\ conns[c].fin = 0
        /\ wire[c] = <<>>
        /\ Alive(World, c) =>
              conns[c].setup /\ conns[PeerEnd(c)].torn = 0 /\ Heartbeating(c)
    /\ \A n \in Nodes : ~peers[n].ev_retry_timer

Ups(n) == LET F[c \in 0..(2 * MaxDials)] ==
                  IF c = 0 THEN 0
                  ELSE F[c - 1] + (IF c \in ConnsOf(n) THEN peer_up[c] ELSE 0)
          IN  F[2 * MaxDials]

Torn(c) == conns[c].mode = "DEAD" /\ conns[c].torn = 1

\* C2: simultaneous dial with distinct nonces: once settled, the node with the
\* smaller nonce holds its outbound connection, the other node the inbound end
\* of the same link, and the other link is terminated on both sides
C2_SimultaneousDial ==
    (/\ Dialed(1) /\ Dialed(2) /\ Quiescent
     /\ sent_nonce[1] # 0 /\ sent_nonce[2] # 0 /\ sent_nonce[1] # sent_nonce[2])
    => \E n \in Nodes :
          LET c == peers[n].conn
          IN  /\ sent_nonce[n] < sent_nonce[Other(n)]
              /\ Connected(n) /\ Connected(Other(n))
              /\ c # NullConn /\ IsActiveEnd(c) /\ NodeOf(World, c) = n
              /\ peers[Other(n)].conn = PeerEnd(c)
              /\ \A e \in ConnIds \ {c, PeerEnd(c)} :
                     conns[e].mode # "NONE" => Torn(e)

\* C5: asymmetric dial: once settled, both nodes are CONNECTED over the same
\* link and each has posted peer_cb(conn, true) exactly once
C5_AsymmetricDial ==
    (peers[2].addr = NullAddr /\ Dialed(1) /\ Quiescent)
    => /\ Connected(1) /\ Connected(2)
       /\ peers[2].conn = PeerEnd(peers[1].conn)
       /\ Ups(1) = 1 /\ Ups(2) = 1

\* C8: no user handler is invoked for a message of a connection that is DEAD
C8_NoHandlerAfterDead ==
    \A i \in 1..Len(handled) : handled[i].mode # "DEAD"

\* the receive buffer holds a complete frame, or a header on_read would reject
FrameAvailable ==
    IF msg_state = "HEADER"
    THEN /\ recv_buffer # <<>>
         /\ oversized(Head(recv_buffer)) \/ Len(recv_buffer) > Head(recv_buffer).length
    ELSE Len(recv_buffer) >= msg.length

\* C10: a frame with a bad checksum is dropped without a teardown and leaves the
\* parser in HEADER, and on_read returns only when the buffer cannot yield
\* another complete frame (or the queue is full, or it has thrown)
C10_ChecksumDrop ==
    /\ \A i \in 1..Len(reported) : reported[i].kind = "CONN_OVERSIZED_MSG"
    /\ (Alive(World, RC) /\ ~msg_sleep) => ~FrameAvailable

Ids(q) == [i \in 1..Len(q) |-> q[i].id]

\* ids of the frames of a byte stream that starts at a frame boundary
RECURSIVE FrameIds(_)
FrameIds(b) ==
    IF b = <<>> THEN <<>>
    ELSE <<Head(b).id>> \o FrameIds(SubSeq(b, 2 + Head(b).length, Len(b)))

\* the frames RC has not parsed yet: in its receive buffer and in the socket
\* (none once on_read has thrown: RC reads no more)
RxStreamIds ==
    LET b == recv_buffer \o socket
        skip == IF msg_state = "PAYLOAD" THEN msg.length ELSE 0
    IN  IF reported # <<>> THEN <<>> ELSE FrameIds(SubSeq(b, skip + 1, Len(b)))

\* the frame RC holds outside its buffers: half parsed, or waiting for the queue
RxHeldIds == IF msg_sleep \/ msg_state = "PAYLOAD" THEN <<msg.id>> ELSE <<>>

SendQueueIds == [i \in 1..Len(send_buffer[SC]) |-> send_buffer[SC][i][1].id]

Increasing(q) == \A i, j \in 1..Len(q) : i < j => q[i] < q[j]

\* C11: the messages of one connection stay in the order of their send_msg
\* calls all the way: in the send queue, on the socket, in the receive buffer, in
\* the inbound queue and at the handlers; only accepted messages travel
C11_SendFIFO ==
    LET path == Ids(handled) \o Ids(incoming_msgs) \o RxHeldIds \o RxStreamIds
                    \o SendQueueIds
    IN  /\ Increasing(path)
        /\ \A i \in 1..Len(path) : path[i] <= Len(submitted) /\ submitted[path[i]].ok

\* two messages reached their handlers while a third was still queued for sending
C11_Witness ==
    /\ Len(handled) >= 2
    /\ handled[1].id < handled[2].id
    /\ send_buffer[SC] # <<>>

\* C12: with queue_capacity 0 no send_msg returns false; with queue_capacity K > 0
\* a send_msg returns false exactly when the send queue holds K chunks, a
\* failed push leaves the queue as it was and an accepted one appends the chunk
C12_SendQueueBound ==
    [][Len(submitted') = Len(submitted) + 1 =>
        LET r == submitted'[Len(submitted')]
        IN  /\ queue_capacity = 0 => r.ok
            /\ queue_capacity > 0 => (r.ok <=> Len(send_buffer[SC]) < queue_capacity)
            /\ ~r.ok => send_buffer'[SC] = send_buffer[SC]
            /\ r.ok => /\ Len(send_buffer'[SC]) = Len(send_buffer[SC]) + 1
                       /\ SubSeq(send_buffer'[SC], 1, Len(send_buffer[SC]))
                              = send_buffer[SC]
                       /\ send_buffer'[SC][Len(send_buffer'[SC])][1].id = r.id]_vars

\* on a bounded queue a push failed and, after the worker drained, a later one
\* was accepted
C12_Witness ==
    /\ queue_capacity > 0
    /\ \E i, j \in 1..Len(submitted) : i < j /\ ~submitted[i].ok /\ submitted[j].ok
    /\ nframes > 0

\* the messages RC's parser has finished with and that have a handler: accepted
\* by send_msg, written, of a known opcode and not oversized
ParsedKnownIds ==
    LET unparsed == {RxStreamIds[i] : i \in 1..Len(RxStreamIds)}
                        \cup {SendQueueIds[i] : i \in 1..Len(SendQueueIds)}
                        \cup (IF msg_state = "PAYLOAD" THEN {msg.id} ELSE {})
        done(i) == /\ submitted[i].ok
                   /\ i \notin unparsed
                   /\ reported # <<>> => i < reported[1].id
                   /\ submitted[i].opcode \in handler_map
                   /\ submitted[i].length <= max_msg_size
        F[i \in 0..Len(submitted)] ==
            IF i = 0 THEN <<>>
            ELSE IF done(i) THEN Append(F[i - 1], i) ELSE F[i - 1]
    IN  F[Len(submitted)]

\* the messages with a handler that went into the inbound queue, and the one
\* waiting for it
QueuedKnownIds ==
    LET q == Ids(handled)
               \o Ids(SelectSeq(incoming_msgs, LAMBDA m : m.opcode \in handler_map))
               \o (IF msg_sleep /\ msg.opcode \in handler_map THEN <<msg.id>> ELSE <<>>)
    IN  q

\* C13: a message that found the inbound queue full is kept in msg with
\* msg_sleep set, nothing more is parsed while msg_sleep stays set, and the
\* messages handled, queued and waiting are exactly the parsed ones, each once
\* and in order
C13_BackpressureKeepsAll ==
    /\ [](QueuedKnownIds = ParsedKnownIds)
    /\ [](msg_sleep => /\ msg_state = "HEADER"
                       /\ msg.id \notin {incoming_msgs[i].id : i \in 1..Len(incoming_msgs)})
    /\ [][msg_sleep =>
             \/ /\ Len(incoming_msgs) < max_msg_queue_size
                /\ incoming_msgs' # <<>>
                /\ incoming_msgs'[Len(incoming_msgs) + 1].id = msg.id
             \/ /\ msg_sleep'
                /\ msg' = msg
                /\ msg_state' = msg_state
                /\ Len(recv_buffer') >= Len(recv_buffer)
                /\ SubSeq(recv_buffer', 1, Len(recv_buffer)) = recv_buffer
                /\ Len(incoming_msgs') <= Len(incoming_msgs)]_vars

\* a message waits for the full inbound queue with a later frame behind it
C13_Witness ==
    /\ msg_sleep
    /\ Alive(World, RC)
    /\ Len(incoming_msgs) = max_msg_queue_size
    /\ recv_buffer # <<>>

\* C14: a paused live connection has its poll timer armed, and while the user
\* thread keeps draining, the message a live connection is paused on is
\* eventually enqueued (msg_sleep is cleared and on_read runs again)
C14_Resumes ==
    /\ []((msg_sleep /\ Alive(World, RC)) => ev_enqueue_poll)
    /\ \A i \in 1..MaxSends :
          (msg_sleep /\ msg.id = i /\ Alive(World, RC))
              ~> (~(msg_sleep /\ msg.id = i) \/ ~Alive(World, RC))

\* a live RC is paused on a message behind an earlier one that is still queued,
\* after the user thread has handled a message
C14_Witness ==
    /\ msg_sleep
    /\ Alive(World, RC)
    /\ msg.id > 1
    /\ \E i \in 1..Len(incoming_msgs) : incoming_msgs[i].id < msg.id
    /\ handled # <<>>

\* every connection node n has dialed or accepted so far has been finalized
RoundOver(n) ==
    /\ nlinks > 0
    /\ ~Connected(n)
    /\ \A c \in ConnsOf(n) : Torn(c) /\ conns[c].stop = 0
    /\ \A c \in ConnIds : conns[c].mode # "NONE" => conns[c].setup \/ Torn(c)

\* C15: after conn_peer with ntry = -1, whenever the connections of a round are
\* gone and the peer is not CONNECTED, another dial is eventually started
C15_KeepsTrying ==
    \A k \in 1..(MaxDials - 1) :
        (asked[1].ntry = -1 /\ nlinks = k /\ RoundOver(1))
            ~> (nlinks > k \/ asked[1].ntry # -1)

\* C16: after conn_peer with ntry = n > 0 at most n dials are started until the
\* next conn_peer, and no retry is scheduled while the peer's ntry is 0
C16_NtryBoundsDials ==
    \A n \in Nodes :
        /\ asked[n].ntry > 0 => nlinks - asked[n].base <= asked[n].ntry
        /\ (asked[n].base >= 0 /\ peers[n].ntry = 0) => ~peers[n].ev_retry_timer

\* both nodes dialed before handling the other's Ping, with the same nonce
NonceTie ==
    /\ Dialed(1) /\ Dialed(2)
    /\ sent_nonce[1] # 0
    /\ sent_nonce[1] = sent_nonce[2]

\* every connection made so far has been finalized and nothing is pending
AllTorn ==
    \A c \in ConnIds :
        /\ wire[c] = <<>>
        /\ conns[c].mode # "NONE" => Torn(c) /\ conns[c].stop = 0

\* C17: once the round of a nonce tie between two nodes that dialed with
\* ntry # 0 is over without a connection, each side has its retry timer armed,
\* so that a new round with fresh nonces follows
C17_TieArmsRetry ==
    (NonceTie /\ AllTorn /\ nlinks = 2 /\ \A n \in Nodes : peers[n].ntry # 0)
        => \A n \in Nodes : peers[n].ev_retry_timer

\* C18: after a simultaneous dial with equal nonces has settled, neither side
\* has elected a connection, every connection of the round is terminated and
\* both nonces are 0
C18_NonceTie ==
    (NonceTie /\ Quiescent) =>
        /\ \A n \in Nodes : ~Connected(n) /\ peers[n].nonce = 0
        /\ \A c \in ConnIds : peer_up[c] = 0
        /\ \A c \in ConnIds : conns[c].mode # "NONE" => Torn(c)

\* C19: once node 1 is CONNECTED over connection c and node 2 has fallen silent,
\* the watchdog of c runs out, c is terminated and torn down exactly once, node
\* 1's peer goes back to DISCONNECTED with one peer-down report, and the retry
\* timer is armed exactly when the decremented ntry is not zero.
C19_SilentPeerTornDown ==
    \A c \in ConnIds :
        (Connected(1) /\ peers[1].conn = c /\ silent[2])
            ~> /\ peers[1].state = "DISCONNECTED"
               /\ Torn(c) /\ ev_timeout[c] = Unarmed
               /\ peer_down[c] = 1
               /\ peers[1].ev_retry_timer <=> asked[1].ntry \notin {0, 1}

\* the far end is silent and still open, node 1's end was torn down by its
\* watchdog, the peer is DISCONNECTED and the retry timer is armed
C19_Witness ==
    /\ silent[2] /\ conns[2].mode = "PASSIVE"
    /\ Torn(1) /\ peer_up[1] = 1 /\ peer_down[1] = 1
    /\ peers[1].state = "DISCONNECTED"
    /\ asked[1].ntry = -1 /\ peers[1].ev_retry_timer

\* C20: whenever a connection that stays open has received a message, its
\* watchdog stands at the full conn_timeout again.
C20_ReceiptResetsTimeout ==
    [][\A c \in ConnIds :
          (Len(wire'[c]) < Len(wire[c]) /\ ev_timeout'[c] # Unarmed)
              => ev_timeout'[c] = conn_timeout]_vars

\* C27: a node that dials a peer holding no address for it draws a nonce below
\* passive_nonce, and once the passive side has elected the inbound connection
\* and the Pong has been handled, the dialer has elected the outbound one
C27_PassiveSentinel ==
    \A n \in Nodes :
        (peers[Other(n)].addr = NullAddr /\ sent_nonce[n] # 0)
            => /\ sent_nonce[n] < passive_nonce
               /\ (Quiescent /\ Connected(Other(n))) => Connected(n)

\* heartbeat messages carry no address
Heartbeats(q, op) ==
    Cardinality({i \in 1..Len(q) : q[i].op = op /\ q[i].claimed_addr = NullAddr})

\* the heartbeat Pings node n has sent on its chosen connection that are not
\* answered yet: on their way, or their Pong on its way back
Unanswered(n) ==
    LET c == peers[n].chosen_conn
    IN  Heartbeats(wire[PeerEnd(c)], "Ping") + Heartbeats(wire[c], "Pong")

\* C28: a CONNECTED peer has at most one unanswered heartbeat Ping, none once
\* pong_msg_ok is set; a step that sends a further heartbeat Ping on the chosen
\* connection starts with one of the two flags set and the other being set by
\* the step, and ends with both flags clear and the ping timer armed
C28_HeartbeatCycle ==
    /\ [](\A n \in Nodes : Connected(n) =>
            /\ Unanswered(n) <= 1
            /\ peers[n].pong_msg_ok => Unanswered(n) = 0)
    /\ [][\A n \in Nodes :
            LET c == peers[n].chosen_conn
            IN  (/\ Connected(n) /\ Connected(n)' /\ peers[n].chosen_conn' = c
                 /\ Heartbeats(wire'[PeerEnd(c)], "Ping")
                        > Heartbeats(wire[PeerEnd(c)], "Ping"))
                => /\ peers[n].ping_timer_ok \/ peers[n].pong_msg_ok
                   /\ peers[n].ping_timer_ok => Heartbeats(wire[c], "Pong") = 1
                   /\ peers[n].pong_msg_ok => peers[n].ev_ping_timer
                   /\ ~peers[n].ping_timer_ok' /\ ~peers[n].pong_msg_ok'
                   /\ peers[n].ev_ping_timer']_vars

\* the task reports one recoverable error under the call's async-id and does
\* nothing else: no fatal error, the registry, the peers and the connections
\* stay as they are
FailsWith(w, code) == w = recoverable_error(World, gen_async_id, code)

\* C21: in every state, each deferred call that meets a domain failure yields
\* exactly one recoverable error tagged with its async-id and changes nothing:
\* add_peer on a registered peer; conn_peer, set_peer_addr and del_peer on an
\* unregistered one; conn_peer on a peer with no address; a deferred send to a
\* registered peer that is not CONNECTED
C21_DomainFailures ==
    LET id == gen_async_id
    IN  /\ known_peers[1] =>
              \A r \in 0..MaxNonce :
                  FailsWith(add_peer(World, 1, id, r), "PEER_ALREADY_EXISTS")
        /\ ~known_peers[1] =>
              /\ FailsWith(conn_peer_deferred(World, 1, -1, id), "PEER_NOT_EXIST")
              /\ FailsWith(set_peer_addr(World, 1, 2, id), "PEER_NOT_EXIST")
              /\ FailsWith(del_peer(World, 1, id), "PEER_NOT_EXIST")
              /\ \A out \in {"crash", "lost"} :
                    FailsWith(send_msg_deferred(World, 1, 2, id, queue_capacity, out),
                              "PEER_NOT_EXIST")
        /\ (known_peers[1] /\ peers[1].addr = NullAddr) =>
              FailsWith(conn_peer_deferred(World, 1, -1, id), "PEER_NOT_READY")
        /\ (known_peers[1] /\ ~Connected(1)) =>
              \A out \in {"crash", "lost"} :
                  FailsWith(send_msg_deferred(World, 1, 2, id, queue_capacity, out),
                            "CONN_NOT_READY")

\* C22: a del_peer that finds the peer registered removes it from known_peers,
\* terminates its connection, leaves no pending entry under the peer's address,
\* leaves no connection still to be torn down with a back-pointer to the removed
\* Peer, and leaves none of the peer's timers armed.
C22_DelPeerRemoves ==
    [][(known_peers[1] /\ ~known_peers'[1]) =>
        LET p == peers[1]
        IN  /\ p.conn # NullConn => conns'[p.conn].stop > conns[p.conn].stop
            /\ {o \in pending_peers'[1] : get_addr(World, o) = p.addr} = {}
            /\ \A c \in ConnIds :
                (conns'[c].mode # "NONE" /\ NodeOf(World, c) = 1 /\ conns'[c].torn = 0)
                    => ~conns'[c].peer
            /\ ~peers'[1].ev_retry_timer /\ ~peers'[1].ev_ping_timer]_vars

\* the handler task of the message at the head of connection c's inbound queue
\* runs in this step
Delivered(c) ==
    /\ wire[c] # <<>>
    /\ wire'[c] = Tail(wire[c])
    /\ conns[c].setup
    /\ Alive(World, c)
    /\ conns'[c].mode = conns[c].mode

Handshake(c, op) == Head(wire[c]).op = op /\ Head(wire[c]).claimed_addr # NullAddr

\* C25: a handshake Ping on a passive connection whose PeerId is not registered
\* posts unknown_peer_cb once and terminates the connection; no Pong or any
\* other message is sent, no peer is created or changed and no peer callback
\* is emitted.
C25_UnknownPeerPing ==
    [][\A c \in ConnIds :
        LET n == NodeOf(World, c)
        IN  (/\ Delivered(c)
             /\ conns[c].mode = "PASSIVE"
             /\ Handshake(c, "Ping")
             /\ ~PeerKnown(World, n, get_peer_id(c, Head(wire[c]).claimed_addr)))
            => /\ unknown_cb' = [unknown_cb EXCEPT ![n] = @ + 1]
               /\ conns' = [conns EXCEPT ![c].stop = @ + 1]
               /\ \A d \in ConnIds \ {c} : wire'[d] = wire[d]
               /\ send_buffer' = send_buffer
               /\ peers' = peers
               /\ known_peers' = known_peers
               /\ peer_up' = peer_up /\ peer_down' = peer_down]_vars

\* an unregistered claimed address has been reported and the connection it
\* came on is being terminated, with nothing sent back
C25_Witness ==
    \E c \in ConnIds :
        /\ conns[c].mode = "PASSIVE"
        /\ unknown_cb[NodeOf(World, c)] = 1
        /\ conns[c].stop = 1
        /\ wire[c] = <<>>
        /\ wire[PeerEnd(c)] = <<>>

\* C26: with allow_unknown_peer = false the unknown-peer callback is never
\* invoked.
C26_NoUnknownPeerCallback ==
    ~allow_unknown_peer => \A n \in Nodes : unknown_cb[n] = 0

\* C30: a handshake Ping on a passive connection, or a handshake Pong on an
\* active one, for a registered peer that is not DISCONNECTED or whose
\* non-null address differs from the claimed one, is dropped: peers,
\* connections, timers and callbacks stay as they are and nothing is sent.
Dropped(c) ==
    LET n == NodeOf(World, c)
        m == Head(wire[c])
        p == peers[n]
        mismatch == p.addr # NullAddr /\ p.addr # m.claimed_addr
    IN  /\ Delivered(c)
        /\ \/ /\ conns[c].mode = "PASSIVE" /\ Handshake(c, "Ping")
              /\ PeerKnown(World, n, get_peer_id(c, m.claimed_addr))
           \/ /\ conns[c].mode = "ACTIVE" /\ Handshake(c, "Pong")
              /\ PeerKnown(World, n, get_peer_id(c, get_addr(World, c)))
        /\ p.state # "DISCONNECTED" \/ mismatch

C30_HandshakeDropped ==
    [][\A c \in ConnIds :
        Dropped(c) => /\ peers' = peers
                      /\ conns' = conns
                      /\ pending_peers' = pending_peers
                      /\ wire' = [wire EXCEPT ![c] = Tail(@)]
                      /\ send_buffer' = send_buffer
                      /\ ev_timeout' = ev_timeout
                      /\ peer_up' = peer_up /\ peer_down' = peer_down
                      /\ reg_vars' = reg_vars]_vars

\* one more handshake message than the handshake needs was sent and has been
\* taken; both peers are still CONNECTED on untouched connections and nothing
\* was reported or sent
C30_Witness ==
    /\ used.event = 1
    /\ \A n \in Nodes : known_peers[n] /\ Connected(n) /\ unknown_cb[n] = 0
    /\ \A c \in ConnIds : wire[c] = <<>> /\ conns[c].stop = 0 /\ conns[c].fin = 0
                            /\ conns[c].mode # "DEAD"
    /\ errors = <<>>

\* the user messages queued on connection c or on their way to its other end
UserMsgs(w, c) ==
    Cardinality({i \in 1..Len(w.sbuf[c]) : w.sbuf[c][i] = UserMsg})
        + Cardinality({i \in 1..Len(w.wire[PeerEnd(c)]) : w.wire[PeerEnd(c)][i] = UserMsg})

\* exactly one error more, recoverable and tagged with the call's async-id
OneRecoverable(w, id) ==
    /\ Len(w.err) = Len(errors) + 1
    /\ SubSeq(w.err, 1, Len(errors)) = errors
    /\ w.err[Len(w.err)].id = id
    /\ ~w.err[Len(w.err)].fatal

\* C23: multicast_msg writes the message once per listed peer to that peer's
\* connection and reports nothing; when a listed peer is missing or a write
\* fails it reports exactly one recoverable error with the call's async-id
\* for the whole batch.
C23_MulticastBatch ==
    \A pids \in PidLists, out \in {"crash", "lost"} :
        LET w == multicast_msg(World, 1, pids, gen_async_id, queue_capacity, out)
            missing == \E i \in 1..Len(pids) : ~PeerKnown(World, 1, pids[i])
            c == peers[1].conn
            listed == Cardinality({i \in 1..Len(pids) : pids[i] = 2})
            delivered == c # NullConn /\ ~(Alive(World, c) /\ conns[c].setup
                                           /\ is_terminated(World, PeerEnd(c)))
        IN  IF missing THEN OneRecoverable(w, gen_async_id)
            ELSE \/ /\ w.err = errors
                    /\ delivered => UserMsgs(w, c) = UserMsgs(World, c) + listed
                    /\ c # NullConn
                 \/ /\ OneRecoverable(w, gen_async_id)
                    /\ c # NullConn
                    /\ UserMsgs(w, c) < UserMsgs(World, c) + listed

\* C24: addr2conn has an entry for an address exactly when a set-up connection
\* from that address has not been torn down yet, the entry is such a
\* connection, and a send to an address fails with CLIENT_NOT_EXIST exactly
\* when the address has no entry.
C24_Addr2ConnExact ==
    \A a \in ClientAddrs :
        LET from == {c \in ClientConns :
                        conns[c].setup /\ conns[c].torn = 0 /\ remote_addr[c] = a}
            sent == client_send_msg_deferred(World, addr2conn, a, gen_async_id,
                                             queue_capacity)
        IN  /\ addr2conn[a] # NullConn <=> from # {}
            /\ addr2conn[a] # NullConn => addr2conn[a] \in from
            /\ (sent = recoverable_error(World, gen_async_id, "CLIENT_NOT_EXIST"))
                   <=> addr2conn[a] = NullConn

\* the user messages connection c has sent or still holds in its send queue
UserOut(c) == SelectSeq(wire[PeerEnd(c)] \o send_buffer[c], IsUser)

\* C29: when finish_handshake runs for a peer with a previous connection, the
\* chunks queued on the old connection all move to the chosen connection in
\* their order, whatever queue_capacity is; the old queue is then empty and
\* the old connection's back-pointer null.
C29_SendQueueMoved ==
    [][(peers[1].state = "DISCONNECTED" /\ peers'[1].state = "CONNECTED"
            /\ peers[1].conn # NullConn) =>
        LET old == peers[1].conn
            new == peers'[1].conn
        IN  /\ SelectSeq(wire'[PeerEnd(new)] \o send_buffer'[new], IsUser)
                   = UserOut(new) \o SelectSeq(send_buffer[old], IsUser)
            /\ send_buffer'[old] = <<>>
            /\ ~conns'[old].peer]_vars

\* C31: while a peer is CONNECTED its retry timer is not armed, and no step
\* starts an active dial for a peer that is CONNECTED.
C31_NoRetryWhileConnected ==
    /\ [](\A n \in Nodes : Connected(n) => ~peers[n].ev_retry_timer)
    /\ [][\A n \in Nodes :
            Connected(n) => (nlinks' = nlinks \/ dialer'[nlinks'] # n)]_vars

\* a peer with retries left is CONNECTED again after the loss of an earlier
\* connection had armed its retry timer
C31_Witness ==
    \E n \in Nodes :
        /\ Connected(n)
        /\ peers[n].ntry # 0
        /\ ~peers[n].ev_retry_timer
        /\ \E c \in ConnsOf(n) : peer_down[c] > 0

\* finish_handshake runs for node n's peer in this step: it is what emits the
\* peer-up callback
Entered(n) == \E c \in ConnIds : NodeOf(World, c) = n /\ peer_up'[c] > peer_up[c]

\* C33: finish_handshake is entered only for a DISCONNECTED peer, whose
\* previous connection, if it has one, is terminated by then; and a peer
\* becomes CONNECTED in no other way.
C33_FinishHandshakeEntry ==
    [][\A n \in Nodes :
        /\ Entered(n) =>
            /\ peers[n].state = "DISCONNECTED"
            /\ peers[n].conn # NullConn => is_terminated(World, peers[n].conn)
            /\ peers'[n].state = "CONNECTED"
        /\ (peers[n].state # "CONNECTED" /\ peers'[n].state = "CONNECTED")
               => Entered(n)]_vars

\* a peer is CONNECTED on a connection that replaced an earlier, terminated one
C33_Witness ==
    \E n \in Nodes :
        /\ Connected(n)
        /\ \E c \in ConnsOf(n) :
            /\ c # peers[n].conn
            /\ peer_up[c] > 0
            /\ is_terminated(World, c)
            /\ ~conns[c].peer

\* C36: whenever pong_handler is about to handle a handshake Pong on an ACTIVE
\* connection for a registered peer, the peer's address is set and equals the
\* connection's remote address.
C36_PongAssertHolds == \A c \in ConnIds : ~PongAssertFails(c)

\* C37: every step that runs on_setup for an ACTIVE connection finds the
\* PeerId of the connection's remote address in known_peers.
C37_SetupFindsPeer ==
    [][\A c \in ConnIds :
        (IsActiveEnd(c) /\ conns[c].mode = "ACTIVE" /\ ~conns[c].setup /\ conns'[c].setup)
            => PeerKnown(World, NodeOf(World, c), get_peer_id(c, get_addr(World, c)))]_vars

\* C38: the teardown of one connection never removes the pending_peers entry
\* of a different connection: an entry held by a live connection that is not
\* bound to a peer and has not been told to stop survives every finalizer of
\* another connection.
C38_TeardownKeepsOthers ==
    [][\A c \in ConnIds, d \in ConnIds :
        LET n == NodeOf(World, d)
        IN  (/\ c # d
             /\ conns'[c].torn > conns[c].torn
             /\ Alive(World, d) /\ ~conns[d].peer /\ conns[d].stop = 0
             /\ d \in pending_peers[n])
                => d \in pending_peers'[n]]_vars

\* C35: the worker select_worker returns has a connection count that is
\* minimal over the nworker workers and is the lowest-numbered worker with that
\* count; with one worker it is worker 0, the dispatcher.
C35_SelectWorkerMinimal ==
    selected # NoWorker =>
        /\ selected \in 0..(nworker - 1)
        /\ \A j \in 0..(nworker - 1) :
            /\ nconn[selected] <= nconn[j]
            /\ nconn[j] = nconn[selected] => selected <= j
        /\ nworker = 1 => selected = 0

C35_Witness ==
    /\ selected # NoWorker /\ selected > 0
    /\ \E j \in 0..(nworker - 1) : j > selected /\ nconn[j] = nconn[selected]
    /\ nconn[0] > nconn[selected]

\* the offset in the stream at which the i-th frame written ends
RECURSIVE EndOf(_)
EndOf(i) == IF i = 0 THEN 0 ELSE EndOf(i - 1) + header_size + written[i].length

\* the number of bytes of the stream read so far
Received == EndOf(Len(written)) - Len(socket)

\* C40: however the stream of well-formed frames is split into reads, the
\* messages enqueued are the frames that have been read completely, in order,
\* and the parser is in PAYLOAD state exactly when the header of a frame has
\* been consumed and its payload is not complete yet.
C40_ChunkingInsensitive ==
    /\ incoming_msgs = SubSeq(written, 1,
           Cardinality({i \in 1..Len(written) : EndOf(i) <= Received}))
    /\ msg_state = "PAYLOAD" <=>
           \E i \in 1..Len(written) :
               EndOf(i - 1) + header_size <= Received /\ Received < EndOf(i)
    /\ reported = <<>>

C40_Witness ==
    /\ Len(incoming_msgs) = 1 /\ incoming_msgs[1].length = 0
    /\ msg_state = "PAYLOAD" /\ msg.length = MaxChunkLen
    /\ recv_buffer # <<>> /\ Len(recv_buffer) < msg.length

\* the chunks the producers have put on SC's send queue
Pushed == SelectSeq(submitted, LAMBDA e : e.ok)

\* C32: on a connection that stays live, every chunk pushed onto the send
\* queue is eventually written to the socket, whatever the interleaving of the
\* pushes with the worker's drain.
C32_NoLostWakeup ==
    \A k \in 1..MaxSends :
        (Len(Pushed) >= k) ~> (nframes >= k \/ ~Alive(World, SC))

C32_Witness ==
    /\ Alive(World, SC)
    /\ \E k \in 1..Len(Pushed) : Pushed[k].ready /\ nframes >= k /\ k > 1

\* C34: a DEAD connection has no event armed and no send-queue handler, a
\* connection that was DEAD when its feed task ran is not counted by the
\* worker, and a write on a DEAD connection is not accepted.
C34_DeadConnInert ==
    /\ is_terminated(World, SC) => io.ev = {} /\ ~io.handler
    /\ io.feed = "discarded" => \A i \in Workers : nconn[i] = 0
    /\ \A k \in 1..Len(submitted) : submitted[k].dead => ~submitted[k].ok

\* C39: the user thread is never in the middle of its read of Peer::conn in
\* send_msg(msg, pid) while the dispatcher is in the middle of a task's writes
\* to the conn or the state of the same Peer.
C39_NoPeerConnRace ==
    ~(race.user = "reading" /\ race.disp = "writing" /\ race.op \in PeerWriters)

====
